---------------------------- MODULE Spec2Model ----------------------------
(***************************************************************************)
(* Geometry and serialization engine of the pragma-graph diagram tool.     *)
(*                                                                         *)
(* Numbers.  The program computes with IEEE doubles.  The model computes   *)
(* with fixed-point integers: a length or coordinate is an integer count   *)
(* of 1/Unit layout units, a unit vector component or a cosine is an       *)
(* integer count of 1/NormScale, an angle is a whole number of degrees.    *)
(* Every division rounds to nearest, symmetrically about zero.             *)
(*                                                                         *)
(* Identifiers.  Node ids and edge ids are strings that the program only   *)
(* compares (===, <, localeCompare); the model uses their rank in that     *)
(* order, a natural number.                                                *)
(***************************************************************************)
EXTENDS Integers, Sequences, FiniteSets, TLC

VARIABLES
    nodes,      \* the snapshot's nodes array (Diagram.nodes)
    edges,      \* the snapshot's edges array (Diagram.edges)
    out,        \* what the last operation returned or emitted
    arg         \* the argument of a pure function under test

vars == <<nodes, edges, out, arg>>

-----------------------------------------------------------------------------
(* Number representation *)

Unit == 100
NormScale == 10000

Undefined == "undefined"

Abs(x) == IF x < 0 THEN -x ELSE x

Sign(x) == IF x > 0 THEN 1 ELSE IF x < 0 THEN -1 ELSE 0

Max(a, b) == IF a >= b THEN a ELSE b

Min(a, b) == IF a <= b THEN a ELSE b

\* a / b rounded to the nearest integer, halves away from zero
Div(a, b) ==
    LET s == Sign(a) * Sign(b)
        n == Abs(a)
        d == Abs(b)
    IN  s * ((2 * n + d) \div (2 * d))

RECURSIVE SqrtIter(_, _, _)
SqrtIter(n, lo, hi) ==
    IF lo >= hi THEN lo
    ELSE LET mid == (lo + hi + 1) \div 2
         IN  IF mid * mid <= n THEN SqrtIter(n, mid, hi)
                               ELSE SqrtIter(n, lo, mid - 1)

\* the integer nearest to the square root of n, given its floor
NearestRoot(n, floor) == IF n - floor * floor > floor THEN floor + 1 ELSE floor

\* Math.sqrt, to the nearest integer
Sqrt(n) == NearestRoot(n, SqrtIter(n, 0, 46340))

\* Math.sqrt(dx * dx + dy * dy)
Hypot(dx, dy) == Sqrt(dx * dx + dy * dy)

\* Math.round(base * multiplier) with the multiplier in tenths
RoundTenths(base, mult10) == (base * mult10 + 5) \div 10

Pt(px, py) == [x |-> px, y |-> py]

-----------------------------------------------------------------------------
(* nodeUtils: effective shape and dimensions *)

MkNode(id, type, shape, size, pos) ==
    [id |-> id, type |-> type, position |-> pos, label |-> "n",
     style |-> [shape |-> shape, size |-> size]]

getNodeShape(node) ==
    IF node.style.shape # Undefined THEN node.style.shape
    ELSE CASE node.type = "vocabulary" -> "ellipse"
           [] node.type = "practice"   -> "rectangle"
           [] node.type = "test"       -> "diamond"
           [] node.type = "operate"    -> "rectangle"
           [] node.type = "exit"       -> "rectangle"
           [] node.type = "custom"     -> "circle"
           [] OTHER                    -> "circle"

\* size === 'small' ? 0.8 : size === 'large' ? 1.3 : 1, in tenths
sizeMultiplier(node) ==
    LET size == IF node.style.size # Undefined THEN node.style.size ELSE "medium"
    IN  IF size = "small" THEN 8 ELSE IF size = "large" THEN 13 ELSE 10

getNodeDimensions(node) ==
    LET m == sizeMultiplier(node)
        shape == getNodeShape(node)
    IN  IF shape = "diamond" \/ node.type = "test"
        THEN LET adjustedSize == RoundTenths(70, m)
             IN  [width  |-> adjustedSize * Unit,
                  height |-> adjustedSize * Unit,
                  radius |-> (adjustedSize * Unit) \div 2]
        ELSE IF shape = "circle"
        THEN LET adjustedRadius == RoundTenths(40, m)
             IN  [width  |-> adjustedRadius * 2 * Unit,
                  height |-> adjustedRadius * 2 * Unit,
                  radius |-> adjustedRadius * Unit]
        ELSE [width  |-> RoundTenths(100, m) * Unit,
              height |-> RoundTenths(50, m) * Unit,
              radius |-> RoundTenths(25, m) * Unit]

\* SimpleApp's copy: the type alone decides, and the radius is half the width
simpleGetNodeDimensions(node) ==
    IF node.type = "test"
    THEN [width  |-> RoundTenths(70, sizeMultiplier(node)) * Unit,
          height |-> RoundTenths(70, sizeMultiplier(node)) * Unit,
          radius |-> (RoundTenths(70, sizeMultiplier(node)) * Unit) \div 2]
    ELSE [width  |-> RoundTenths(100, sizeMultiplier(node)) * Unit,
          height |-> RoundTenths(50, sizeMultiplier(node)) * Unit,
          radius |-> RoundTenths(50, sizeMultiplier(node)) * Unit]

-----------------------------------------------------------------------------
(* Boundary intersection *)

\* faulty variant: Math.atan2 called with its arguments in the wrong order
TrigOfAtan2ArgsSwapped(y, x) ==
    LET k  == (Max(Abs(x), Abs(y)) \div 30000) + 1
        xs == Div(x, k)
        ys == Div(y, k)
        h  == Hypot(xs, ys)
    IN  IF h = 0 THEN [cos |-> NormScale, sin |-> 0]
        ELSE [cos |-> Div(ys * NormScale, h), sin |-> Div(xs * NormScale, h)]

\* Math.cos(Math.atan2(y, x)) and Math.sin(Math.atan2(y, x)), in 1/NormScale.
\* atan2 depends only on the direction of (x, y), so both are first brought
\* into a range whose squares fit; atan2(0, 0) is 0.
TrigOfAtan2(y, x) ==
    LET k  == (Max(Abs(x), Abs(y)) \div 30000) + 1
        xs == Div(x, k)
        ys == Div(y, k)
        h  == Hypot(xs, ys)
    IN  IF h = 0 THEN [cos |-> NormScale, sin |-> 0]
        ELSE [cos |-> Div(xs * NormScale, h), sin |-> Div(ys * NormScale, h)]

\* the interactive canvas's copy
getNodeConnectionPoint(node, targetPos) ==
    LET nodeX == node.position.x
        nodeY == node.position.y
        dx == targetPos.x - nodeX
        dy == targetPos.y - nodeY
        distance == Hypot(dx, dy)
    IN  IF distance = 0 THEN Pt(nodeX, nodeY)
        ELSE
        LET normalizedDx == Div(dx * NormScale, distance)
            normalizedDy == Div(dy * NormScale, distance)
            dimensions == getNodeDimensions(node)
            shape == getNodeShape(node)
            offset ==
              CASE shape = "ellipse" ->
                     LET rx == dimensions.width \div 2
                         ry == dimensions.height \div 2
                         t  == TrigOfAtan2(normalizedDy * rx, normalizedDx * ry)
                     IN  Pt(Div(rx * t.cos, NormScale), Div(ry * t.sin, NormScale))
                [] shape = "rectangle" ->
                     LET w == dimensions.width \div 2
                         h == dimensions.height \div 2
                     IN  IF Abs(normalizedDx) * h > Abs(normalizedDy) * w
                         THEN Pt(IF normalizedDx > 0 THEN w ELSE -w,
                                 Div(normalizedDy * w, Abs(normalizedDx)))
                         ELSE Pt(Div(normalizedDx * h, Abs(normalizedDy)),
                                 IF normalizedDy > 0 THEN h ELSE -h)
                [] shape = "diamond" ->
                     LET diamondRadius == Div(dimensions.radius * 8, 10)
                     IN  Pt(Div(normalizedDx * diamondRadius, NormScale),
                            Div(normalizedDy * diamondRadius, NormScale))
                [] OTHER ->
                     Pt(Div(normalizedDx * dimensions.radius, NormScale),
                        Div(normalizedDy * dimensions.radius, NormScale))
        IN  Pt(nodeX + offset.x, nodeY + offset.y)

\* x || 1 on a unit-vector component
OrOne(x) == IF x = 0 THEN NormScale ELSE x

\* faulty variant: no early return for a zero distance, which is taken as 1
connectionPointUnguarded(node, targetPos) ==
    LET nodeX == node.position.x
        nodeY == node.position.y
        dx == targetPos.x - nodeX
        dy == targetPos.y - nodeY
        distance == IF Hypot(dx, dy) = 0 THEN 1 ELSE Hypot(dx, dy)
    IN  IF distance = 0 THEN Pt(nodeX, nodeY)
        ELSE
        LET normalizedDx == Div(dx * NormScale, distance)
            normalizedDy == Div(dy * NormScale, distance)
            dimensions == getNodeDimensions(node)
            shape == getNodeShape(node)
            offset ==
              CASE shape = "ellipse" ->
                     LET rx == dimensions.width \div 2
                         ry == dimensions.height \div 2
                         t  == TrigOfAtan2(normalizedDy * rx, normalizedDx * ry)
                     IN  Pt(Div(rx * t.cos, NormScale), Div(ry * t.sin, NormScale))
                [] shape = "rectangle" ->
                     LET w == dimensions.width \div 2
                         h == dimensions.height \div 2
                     IN  IF Abs(normalizedDx) * h > Abs(normalizedDy) * w
                         THEN Pt(IF normalizedDx > 0 THEN w ELSE -w,
                                 Div(normalizedDy * w, Abs(OrOne(normalizedDx))))
                         ELSE Pt(Div(normalizedDx * h, Abs(OrOne(normalizedDy))),
                                 IF normalizedDy > 0 THEN h ELSE -h)
                [] shape = "diamond" ->
                     LET diamondRadius == Div(dimensions.radius * 8, 10)
                     IN  Pt(Div(normalizedDx * diamondRadius, NormScale),
                            Div(normalizedDy * diamondRadius, NormScale))
                [] OTHER ->
                     Pt(Div(normalizedDx * dimensions.radius, NormScale),
                        Div(normalizedDy * dimensions.radius, NormScale))
        IN  Pt(nodeX + offset.x, nodeY + offset.y)

\* the exporters' copy
getNodeConnectionPointForExport(node, targetPos) ==
    LET nodeX == node.position.x
        nodeY == node.position.y
        dx == targetPos.x - nodeX
        dy == targetPos.y - nodeY
        distance == Hypot(dx, dy)
    IN  IF distance = 0 THEN Pt(nodeX, nodeY)
        ELSE
        LET normalizedDx == Div(dx * NormScale, distance)
            normalizedDy == Div(dy * NormScale, distance)
            dimensions == getNodeDimensions(node)
            shape == getNodeShape(node)
            offset ==
              CASE shape = "ellipse" ->
                     LET rx == dimensions.width \div 2
                         ry == dimensions.height \div 2
                         t  == TrigOfAtan2(normalizedDy * rx, normalizedDx * ry)
                     IN  Pt(Div(rx * t.cos, NormScale), Div(ry * t.sin, NormScale))
                [] shape = "rectangle" ->
                     LET w == dimensions.width \div 2
                         h == dimensions.height \div 2
                     IN  IF Abs(normalizedDx) * h > Abs(normalizedDy) * w
                         THEN Pt(IF normalizedDx > 0 THEN w ELSE -w,
                                 Div(normalizedDy * w, Abs(OrOne(normalizedDx))))
                         ELSE Pt(Div(normalizedDx * h, Abs(OrOne(normalizedDy))),
                                 IF normalizedDy > 0 THEN h ELSE -h)
                [] shape = "diamond" ->
                     LET diamondRadius == Div(dimensions.radius * 8, 10)
                     IN  Pt(Div(normalizedDx * diamondRadius, NormScale),
                            Div(normalizedDy * diamondRadius, NormScale))
                [] OTHER ->
                     Pt(Div(normalizedDx * dimensions.radius, NormScale),
                        Div(normalizedDy * dimensions.radius, NormScale))
        IN  Pt(nodeX + offset.x, nodeY + offset.y)

-----------------------------------------------------------------------------
(* Angles *)

\* tan((k - 1/2) degrees) in 1/NormScale, k = 1..45: the whole degree nearest
\* to atan(r) is the number of these thresholds that r reaches
TanHalfDegrees ==
    <<87, 262, 437, 612, 787, 963, 1139, 1317, 1495, 1673, 1853, 2035, 2217,
      2401, 2586, 2773, 2962, 3153, 3346, 3541, 3739, 3939, 4142, 4348, 4557,
      4770, 4986, 5206, 5430, 5658, 5890, 6128, 6371, 6619, 6873, 7133, 7400,
      7673, 7954, 8243, 8541, 8847, 9163, 9490, 9827>>

AtanDegrees(num, den) ==
    LET r == Div(num * NormScale, den)
    IN  Cardinality({k \in 1..45 : TanHalfDegrees[k] <= r})

\* (Math.atan2(y, x) * 180) / Math.PI, to the nearest degree
Atan2Degrees(y, x) ==
    LET ax == Abs(x)
        ay == Abs(y)
        base == IF ax = 0 /\ ay = 0 THEN 0
                ELSE IF ay <= ax THEN AtanDegrees(ay, ax)
                ELSE 90 - AtanDegrees(ax, ay)
    IN  IF x >= 0 THEN (IF y >= 0 THEN base ELSE -base)
        ELSE (IF y >= 0 THEN 180 - base ELSE base - 180)

\* faulty variant: the two half-turn tests with their bounds exchanged
normalizeAngleOpenAbove(angleDeg) ==
    LET a1 == IF angleDeg > 180 THEN angleDeg - 360 ELSE angleDeg
        a2 == IF a1 <= -180 THEN a1 + 360 ELSE a1
        a3 == IF a2 >= 90 THEN a2 - 180 ELSE a2
    IN  IF a3 < -90 THEN a3 + 180 ELSE a3

\* exportUtils' normalizeAngle
normalizeAngle(angleDeg) ==
    LET a1 == IF angleDeg > 180 THEN angleDeg - 360 ELSE angleDeg
        a2 == IF a1 <= -180 THEN a1 + 360 ELSE a1
        a3 == IF a2 > 90 THEN a2 - 180 ELSE a2
    IN  IF a3 <= -90 THEN a3 + 180 ELSE a3

\* the canvas's normalizeLabelAngle
normalizeLabelAngle(angleDeg) ==
    LET a1 == IF angleDeg > 180 THEN angleDeg - 360 ELSE angleDeg
        a2 == IF a1 <= -180 THEN a1 + 360 ELSE a1
        a3 == IF a2 > 90 THEN a2 - 180 ELSE a2
    IN  IF a3 <= -90 THEN a3 + 180 ELSE a3

-----------------------------------------------------------------------------
(* Edge offsets *)

EDGE_OFFSET_RANGE == 60
EDGE_LABEL_OFFSET == 14
offsetRange == 60

MkEdge(id, source, target, type, label, isResultant) ==
    [id |-> id, source |-> source, target |-> target, type |-> type,
     label |-> label, isResultant |-> isResultant]

\* allEdges.filter(...): the edges of the same unordered pair, as indices
relatedEdges(currentEdge, allEdges) ==
    {i \in 1..Len(allEdges) :
        \/ (allEdges[i].source = currentEdge.source /\ allEdges[i].target = currentEdge.target)
        \/ (allEdges[i].source = currentEdge.target /\ allEdges[i].target = currentEdge.source)}

\* faulty variant: the related edges are indexed in array order, the sort is missing
sortedIndexUnsorted(currentEdge, allEdges) ==
    LET own == CHOOSE i \in 1..Len(allEdges) : allEdges[i].id = currentEdge.id
    IN  Cardinality({i \in relatedEdges(currentEdge, allEdges) : i < own})

\* relatedEdges.sort(by id).findIndex(id === currentEdge.id), 0-based: the
\* first position holding the id comes after exactly the smaller ids
sortedIndex(currentEdge, allEdges) ==
    Cardinality({i \in relatedEdges(currentEdge, allEdges) : allEdges[i].id < currentEdge.id})

\* (currentIndex - (totalEdges - 1) / 2) * step * orientationSign
spreadOffset(currentIndex, totalEdges, range, orientationSign) ==
    LET step == IF totalEdges > 1 THEN Div(range * Unit, totalEdges - 1) ELSE 0
        baseOffset == Div((2 * currentIndex - (totalEdges - 1)) * step, 2)
    IN  baseOffset * orientationSign

\* faulty variant: the offset without the orientation sign
offsetWithoutOrientation(currentEdge, allEdges) ==
    LET totalEdges == Cardinality(relatedEdges(currentEdge, allEdges))
        currentIndex == sortedIndex(currentEdge, allEdges)
    IN  IF totalEdges <= 1 THEN 0
        ELSE spreadOffset(currentIndex, totalEdges, 60, 1)

\* the interactive canvas's copy
getEdgeOffset(currentEdge, allEdges) ==
    LET totalEdges == Cardinality(relatedEdges(currentEdge, allEdges))
        currentIndex == sortedIndex(currentEdge, allEdges)
        orientationSign == IF currentEdge.source < currentEdge.target THEN 1 ELSE -1
    IN  IF totalEdges <= 1 THEN 0
        ELSE IF totalEdges = 2
        THEN (IF currentIndex = 0 THEN -Div(offsetRange * Unit, 2)
                                  ELSE Div(offsetRange * Unit, 2)) * orientationSign
        ELSE spreadOffset(currentIndex, totalEdges, offsetRange, orientationSign)

\* the exporters' copy
getEdgeOffsetForExport(currentEdge, allEdges) ==
    LET totalEdges == Cardinality(relatedEdges(currentEdge, allEdges))
        currentIndex == sortedIndex(currentEdge, allEdges)
        orientationSign == IF currentEdge.source < currentEdge.target THEN 1 ELSE -1
    IN  IF totalEdges <= 1 THEN 0
        ELSE IF totalEdges = 2
        THEN (IF currentIndex = 0 THEN -Div(EDGE_OFFSET_RANGE * Unit, 2)
                                  ELSE Div(EDGE_OFFSET_RANGE * Unit, 2)) * orientationSign
        ELSE spreadOffset(currentIndex, totalEdges, EDGE_OFFSET_RANGE, orientationSign)

-----------------------------------------------------------------------------
(* Edge geometry *)

Null == [type |-> "null"]

\* a template-literal path: its command letter and the points it lists
Path(cmd, pts) == [cmd |-> cmd, pts |-> pts]

\* nodes.find(n => n.id === id)
hasNode(allNodes, id) == \E i \in 1..Len(allNodes) : allNodes[i].id = id

findNode(allNodes, id) ==
    allNodes[CHOOSE i \in 1..Len(allNodes) :
                /\ allNodes[i].id = id
                /\ \A j \in 1..(i - 1) : allNodes[j].id # id]

\* x || 1 on a length
LengthOrOne(x) == IF x = 0 THEN Unit ELSE x

\* faulty variant: the normal keeps one sign whatever the offset
signDropped(offset) == 1

\* Math.sign(offset || 1)
SignOrOne(offset) == IF offset = 0 THEN 1 ELSE Sign(offset)

\* midPoint + perp * offset of computeCurvedEdgeData / computeCurvedEdgeGeometry
controlPoint(sourceNode, targetNode, offset) ==
    LET midX == Div(sourceNode.position.x + targetNode.position.x, 2)
        midY == Div(sourceNode.position.y + targetNode.position.y, 2)
        dx == targetNode.position.x - sourceNode.position.x
        dy == targetNode.position.y - sourceNode.position.y
        length == Hypot(dx, dy)
        perpX == Div(-dy * NormScale, length)
        perpY == Div(dx * NormScale, length)
    IN  Pt(midX + Div(perpX * offset, NormScale), midY + Div(perpY * offset, NormScale))

\* the exporters' curved edge once its control point and its two boundary
\* points are known: label anchor on the convex side, label along the tangent
curveGeometry(start, controlPos, end, offset) ==
    LET midPoint == Pt(Div(start.x + 2 * controlPos.x + end.x, 4),
                       Div(start.y + 2 * controlPos.y + end.y, 4))
        dxdt == (controlPos.x - start.x) + (end.x - controlPos.x)
        dydt == (controlPos.y - start.y) + (end.y - controlPos.y)
        tangentLength == LengthOrOne(Hypot(dxdt, dydt))
        normalX == Div(-dydt * NormScale, tangentLength) * SignOrOne(offset)
        normalY == Div(dxdt * NormScale, tangentLength) * SignOrOne(offset)
    IN  [type |-> "curve", start |-> start, end |-> end, control |-> controlPos,
         path |-> Path("Q", <<start, controlPos, end>>),
         labelPosition |-> Pt(midPoint.x + Div(normalX * EDGE_LABEL_OFFSET * Unit, NormScale),
                              midPoint.y + Div(normalY * EDGE_LABEL_OFFSET * Unit, NormScale)),
         labelAngle |-> {normalizeAngle(Atan2Degrees(dydt, dxdt))}]

\* the exporters' curved edge bent towards controlPos
curveThrough(sourceNode, targetNode, controlPos, offset) ==
    curveGeometry(getNodeConnectionPointForExport(sourceNode, controlPos), controlPos,
                  getNodeConnectionPointForExport(targetNode, controlPos), offset)

\* the exporters' curved edge
computeCurvedEdgeGeometry(sourceNode, targetNode, offset) ==
    LET dx == targetNode.position.x - sourceNode.position.x
        dy == targetNode.position.y - sourceNode.position.y
        length == Hypot(dx, dy)
    IN  IF length = 0
        THEN LET start == sourceNode.position
                 end == targetNode.position
             IN  [type |-> "straight", start |-> start, end |-> end,
                  path |-> Path("L", <<start, end>>),
                  labelPosition |-> Pt(Div(start.x + end.x, 2), Div(start.y + end.y, 2)),
                  labelAngle |-> {0}]
        ELSE curveThrough(sourceNode, targetNode,
                          controlPoint(sourceNode, targetNode, offset), offset)

\* faulty variant: a straight edge drawn from center to center
straightBetweenCenters(sourceNode, targetNode) ==
    LET start == sourceNode.position
        end == targetNode.position
    IN  [type |-> "straight", start |-> start, end |-> end,
         path |-> Path("L", <<start, end>>),
         labelPosition |-> Pt(Div(start.x + end.x, 2), Div(start.y + end.y, 2)),
         labelAngle |-> {0}]

\* the exporters' straight edge between its two boundary points
straightGeometry(start, end) ==
    LET midX == Div(start.x + end.x, 2)
        midY == Div(start.y + end.y, 2)
        dx == end.x - start.x
        dy == end.y - start.y
        length == LengthOrOne(Hypot(dx, dy))
        normalX == Div(-dy * NormScale, length)
        normalY == Div(dx * NormScale, length)
    IN  [type |-> "straight", start |-> start, end |-> end,
         path |-> Path("L", <<start, end>>),
         labelPosition |-> Pt(midX + Div(normalX * (EDGE_LABEL_OFFSET - 2) * Unit, NormScale),
                              midY + Div(normalY * (EDGE_LABEL_OFFSET - 2) * Unit, NormScale)),
         labelAngle |-> {normalizeAngle(Atan2Degrees(dy, dx))}]

\* the exporters' straight edge
computeStraightEdgeGeometry(sourceNode, targetNode) ==
    straightGeometry(getNodeConnectionPointForExport(sourceNode, targetNode.position),
                     getNodeConnectionPointForExport(targetNode, sourceNode.position))

\* faulty variant: both anchors at the same point beside the node
loopAnchorsCollapsed(node) ==
    LET dimensions == getNodeDimensions(node)
    IN  [start |-> Pt(node.position.x + dimensions.width \div 2, node.position.y),
         end   |-> Pt(node.position.x + dimensions.width \div 2, node.position.y)]

\* start and end anchors of a self-loop, shared shape of both copies
loopAnchors(node) ==
    LET dimensions == getNodeDimensions(node)
    IN  IF getNodeShape(node) = "rectangle"
        THEN [start |-> Pt(node.position.x + dimensions.width \div 2,
                           node.position.y - Div(dimensions.height, 4)),
              end   |-> Pt(node.position.x + dimensions.width \div 2,
                           node.position.y + Div(dimensions.height, 4))]
        ELSE LET r7 == Div(dimensions.radius * 7, 10)
             IN  [start |-> Pt(node.position.x + r7, node.position.y - r7),
                  end   |-> Pt(node.position.x + r7, node.position.y + r7)]

\* the exporters' self-loop
computeLoopEdgeGeometry(node) ==
    LET dimensions == getNodeDimensions(node)
        a == loopAnchors(node)
        loopSize == Div(Max(dimensions.width, dimensions.height) * 8, 10)
        control1 == Pt(a.start.x + loopSize, a.start.y)
        control2 == Pt(a.end.x + loopSize, a.end.y)
    IN  [type |-> "loop", start |-> a.start, end |-> a.end,
         control |-> control1, control2 |-> control2,
         path |-> Path("C", <<a.start, control1, control2, a.end>>),
         labelPosition |->
            Pt(node.position.x + Div(Max(dimensions.width, dimensions.height) * 8, 10),
               node.position.y - Div(Max(dimensions.height, 40 * Unit) * 6, 10)),
         labelAngle |-> {}]

computeEdgeGeometryForExport(edge, allNodes, allEdges) ==
    IF ~hasNode(allNodes, edge.source) \/ ~hasNode(allNodes, edge.target) THEN Null
    ELSE
    LET sourceNode == findNode(allNodes, edge.source)
        targetNode == findNode(allNodes, edge.target)
    IN  IF edge.source = edge.target THEN computeLoopEdgeGeometry(sourceNode)
        ELSE LET offset == getEdgeOffsetForExport(edge, allEdges)
             IN  IF offset = 0 THEN computeStraightEdgeGeometry(sourceNode, targetNode)
                 ELSE computeCurvedEdgeGeometry(sourceNode, targetNode, offset)

\* the canvas's curved edge data once the control point is known
curvedEdgeDataThrough(sourceNode, targetNode, controlPos) ==
    [path |-> Path("Q", <<getNodeConnectionPoint(sourceNode, controlPos), controlPos,
                          getNodeConnectionPoint(targetNode, controlPos)>>),
     source |-> getNodeConnectionPoint(sourceNode, controlPos),
     target |-> getNodeConnectionPoint(targetNode, controlPos),
     control |-> controlPos]

\* the canvas's curved edge data
computeCurvedEdgeData(sourceNode, targetNode, offset) ==
    LET midX == Div(sourceNode.position.x + targetNode.position.x, 2)
        midY == Div(sourceNode.position.y + targetNode.position.y, 2)
        dx == targetNode.position.x - sourceNode.position.x
        dy == targetNode.position.y - sourceNode.position.y
        length == Hypot(dx, dy)
    IN  IF length = 0
        THEN [path |-> Path("", <<>>), source |-> sourceNode.position,
              target |-> targetNode.position, control |-> Pt(midX, midY)]
        ELSE curvedEdgeDataThrough(sourceNode, targetNode,
                                   controlPoint(sourceNode, targetNode, offset))

\* the canvas's self-loop path
getReflexiveEdgePath(node) ==
    LET dimensions == getNodeDimensions(node)
        a == loopAnchors(node)
        loopSize == Div(Max(dimensions.width, dimensions.height) * 8, 10)
    IN  Path("C", <<a.start, Pt(a.start.x + loopSize, a.start.y),
                    Pt(a.end.x + loopSize, a.end.y), a.end>>)

\* the canvas's straight edge between its two boundary points
straightEdge(start, end) ==
    LET midX == Div(start.x + end.x, 2)
        midY == Div(start.y + end.y, 2)
        dx == end.x - start.x
        dy == end.y - start.y
        length == LengthOrOne(Hypot(dx, dy))
        normalX == Div(-dy * NormScale, length)
        normalY == Div(dx * NormScale, length)
    IN  [path |-> Path("L", <<start, end>>),
         labelPosition |-> Pt(midX + Div(normalX * 12 * Unit, NormScale),
                              midY + Div(normalY * 12 * Unit, NormScale)),
         labelAngle |-> {normalizeLabelAngle(Atan2Degrees(dy, dx))}]

\* the canvas's curved edge, labelled from its curve data
curvedEdge(curveData, offset) ==
    LET source == curveData.source
        target == curveData.target
        control == curveData.control
        labelX == Div(source.x + 2 * control.x + target.x, 4)
        labelY == Div(source.y + 2 * control.y + target.y, 4)
        dxdt == (control.x - source.x) + (target.x - control.x)
        dydt == (control.y - source.y) + (target.y - control.y)
        tangentLength == LengthOrOne(Hypot(dxdt, dydt))
        normalX == Div(-dydt * NormScale, tangentLength) * SignOrOne(offset)
        normalY == Div(dxdt * NormScale, tangentLength) * SignOrOne(offset)
    IN  [path |-> curveData.path,
         labelPosition |-> Pt(labelX + Div(normalX * 14 * Unit, NormScale),
                              labelY + Div(normalY * 14 * Unit, NormScale)),
         labelAngle |-> {normalizeLabelAngle(Atan2Degrees(dydt, dxdt))}]

\* the canvas's edge geometry
getEdgeGeometry(edge, allNodes, allEdges) ==
    IF ~hasNode(allNodes, edge.source) \/ ~hasNode(allNodes, edge.target) THEN Null
    ELSE
    LET sourceNode == findNode(allNodes, edge.source)
        targetNode == findNode(allNodes, edge.target)
    IN  IF edge.source = edge.target
        THEN LET dimensions == getNodeDimensions(sourceNode)
             IN  [path |-> getReflexiveEdgePath(sourceNode),
                  labelPosition |->
                     Pt(sourceNode.position.x + Div(Max(dimensions.width, dimensions.height) * 8, 10),
                        sourceNode.position.y - Div(Max(dimensions.height, 40 * Unit) * 6, 10)),
                  labelAngle |-> {}]
        ELSE
        LET offset == getEdgeOffset(edge, allEdges)
        IN  IF offset = 0
            THEN straightEdge(getNodeConnectionPoint(sourceNode, targetNode.position),
                              getNodeConnectionPoint(targetNode, sourceNode.position))
            ELSE curvedEdge(computeCurvedEdgeData(sourceNode, targetNode, offset), offset)

-----------------------------------------------------------------------------
(* Inputs *)

NodeTypes == {"vocabulary", "practice", "test", "operate", "exit", "custom"}

ShapeOverrides ==
    {Undefined, "circle", "rectangle", "ellipse", "diamond", "hexagon", "triangle", "star"}

SizeClasses == {Undefined, "small", "medium", "large"}

\* how far, in grid steps, an aim point lies from the node it is aimed from
MaxDir == 2

\* the slack, in 1/Unit, within which two computed lengths count as equal
\* (the fixed-point rounding of a few divisions)
Tolerance == 3

AimOffsets ==
    {Pt(i * 35 * Unit, j * 20 * Unit) : i \in -MaxDir..MaxDir, j \in -MaxDir..MaxDir}

ProbePositions == {Pt(0, 0), Pt(120 * Unit, -40 * Unit)}

Idle == [op |-> "idle"]

-----------------------------------------------------------------------------
(* Specification SpecPoint: one node, one aim point, both copies of the    *)
(* boundary function                                                       *)

InitPoint ==
    /\ nodes = <<>>
    /\ edges = <<>>
    /\ out = Idle
    /\ \E type \in NodeTypes, shape \in ShapeOverrides, size \in SizeClasses,
          pos \in ProbePositions, d \in AimOffsets :
          arg = [node |-> MkNode(1, type, shape, size, pos),
                 target |-> Pt(pos.x + d.x, pos.y + d.y)]

CanvasConnectionPoint ==
    /\ out = Idle
    /\ out' = [op |-> "getNodeConnectionPoint",
               point |-> getNodeConnectionPoint(arg.node, arg.target)]
    /\ UNCHANGED <<nodes, edges, arg>>

ExportConnectionPoint ==
    /\ out = Idle
    /\ out' = [op |-> "getNodeConnectionPointForExport",
               point |-> getNodeConnectionPointForExport(arg.node, arg.target)]
    /\ UNCHANGED <<nodes, edges, arg>>

\* a second node, of the same kind, placed at the aim point
Twin == [arg.node EXCEPT !.id = 2, !.position = arg.target]

EdgeToTwin == MkEdge(1, 1, 2, "PV", Undefined, FALSE)

\* the exporters' geometry of the edge from the node to its twin
ExportEdgeToTwin ==
    /\ out = Idle
    /\ out' = [op |-> "computeEdgeGeometryForExport",
               geometry |-> computeEdgeGeometryForExport(EdgeToTwin, <<arg.node, Twin>>,
                                                         <<EdgeToTwin>>)]
    /\ UNCHANGED <<nodes, edges, arg>>

\* the canvas's geometry of the edge from the node to its twin
CanvasEdgeToTwin ==
    /\ out = Idle
    /\ out' = [op |-> "getEdgeGeometry",
               geometry |-> getEdgeGeometry(EdgeToTwin, <<arg.node, Twin>>, <<EdgeToTwin>>)]
    /\ UNCHANGED <<nodes, edges, arg>>

NextPoint ==
    \/ CanvasConnectionPoint
    \/ ExportConnectionPoint
    \/ ExportEdgeToTwin
    \/ CanvasEdgeToTwin

SpecPoint == InitPoint /\ [][NextPoint]_vars

\* the returned point relative to the node's center
PointOffset == Pt(out.point.x - arg.node.position.x, out.point.y - arg.node.position.y)

AimVector == Pt(arg.target.x - arg.node.position.x, arg.target.y - arg.node.position.y)

Returned == out.op \in {"getNodeConnectionPoint", "getNodeConnectionPointForExport"}

NonZeroAim == AimVector.x # 0 \/ AimVector.y # 0

\* o lies on the ray from the origin along d
OnRay(o, d) ==
    /\ o.x * d.x + o.y * d.y > 0
    /\ Abs(o.x * d.y - o.y * d.x) <= Tolerance * Hypot(d.x, d.y)

OnCircle(o, r) == Abs(Hypot(o.x, o.y) - r) <= Tolerance

OnEllipse(o, rx, ry) ==
    Abs(Hypot(Div(o.x * NormScale, rx), Div(o.y * NormScale, ry)) - NormScale)
        <= Div(Tolerance * NormScale, Min(rx, ry))

OnRectangle(o, w, h) ==
    \/ (Abs(o.x) = w /\ Abs(o.y) <= h)
    \/ (Abs(o.y) = h /\ Abs(o.x) <= w)

\* the diamond outline the renderers draw: |x| + |y| = size
OnDiamond(o, size) == Abs(Abs(o.x) + Abs(o.y) - size) <= 2 * Tolerance

\* the boundary on which the function is written to put its result
OnComputedBoundary(node, o) ==
    LET dimensions == getNodeDimensions(node)
        shape == getNodeShape(node)
    IN  CASE shape = "ellipse"   -> OnEllipse(o, dimensions.width \div 2, dimensions.height \div 2)
          [] shape = "rectangle" -> OnRectangle(o, dimensions.width \div 2, dimensions.height \div 2)
          [] shape = "diamond"   -> OnCircle(o, Div(dimensions.radius * 8, 10))
          [] OTHER               -> OnCircle(o, dimensions.radius)

\* the outline that is drawn for the shape
OnDrawnOutline(node, o) ==
    LET dimensions == getNodeDimensions(node)
        shape == getNodeShape(node)
    IN  CASE shape = "ellipse"   -> OnEllipse(o, dimensions.width \div 2, dimensions.height \div 2)
          [] shape = "rectangle" -> OnRectangle(o, dimensions.width \div 2, dimensions.height \div 2)
          [] shape = "diamond"   -> OnDiamond(o, dimensions.radius)
          [] OTHER               -> OnCircle(o, dimensions.radius)

\* C4 (as stated): for every effective shape and every non-zero direction the
\* returned point is on the shape's drawn outline, on the ray toward the target.
C4_OnOutlineEveryShape ==
    (Returned /\ NonZeroAim) =>
        /\ OnRay(PointOffset, AimVector)
        /\ OnDrawnOutline(arg.node, PointOffset)

\* C4 (amended): the returned point is on the ray toward the target; it is on
\* the outline for ellipse, rectangle and circle, on the circle of radius
\* 0.8 * radius for a diamond, and on the circle of radius `radius` for
\* triangle, hexagon and star.
C4_OnComputedBoundary ==
    (Returned /\ NonZeroAim) =>
        /\ OnRay(PointOffset, AimVector)
        /\ OnComputedBoundary(arg.node, PointOffset)

C4_Witness ==
    /\ Returned /\ NonZeroAim
    /\ getNodeShape(arg.node) = "diamond"
    /\ AimVector.x # 0 /\ AimVector.y # 0
    /\ OnComputedBoundary(arg.node, PointOffset)

\* the aim point is the node's own position
Coincident == arg.target = arg.node.position

FinitePoint(p) == p.x \in Int /\ p.y \in Int

FiniteAngle(angle) == angle # {} /\ \A a \in angle : a \in Int

\* C14: aimed at its own position, getNodeConnectionPoint returns exactly the
\* node's center for every shape, so the edge between two distinct nodes at
\* one position has a geometry that is not null and whose coordinates and
\* label angle are finite numbers.
C14_CoincidentGivesCenter ==
    Coincident =>
        /\ Returned => out.point = arg.node.position
        /\ out.op = "computeEdgeGeometryForExport" =>
              /\ out.geometry # Null
              /\ out.geometry.start = arg.node.position
              /\ out.geometry.end = arg.node.position
              /\ FinitePoint(out.geometry.labelPosition)
              /\ FiniteAngle(out.geometry.labelAngle)
        /\ out.op = "getEdgeGeometry" =>
              /\ out.geometry # Null
              /\ out.geometry.path.pts = <<arg.node.position, arg.node.position>>
              /\ FinitePoint(out.geometry.labelPosition)
              /\ FiniteAngle(out.geometry.labelAngle)

C14_Witness ==
    /\ Coincident
    /\ out.op = "computeEdgeGeometryForExport"
    /\ getNodeShape(arg.node) = "rectangle"
    /\ out.geometry.type = "straight"
    /\ out.geometry.labelAngle = {0}
    /\ out.geometry.labelPosition = arg.node.position

-----------------------------------------------------------------------------
(* Renderers *)

RECURSIVE Flatten(_)
Flatten(ss) == IF ss = <<>> THEN <<>> ELSE Head(ss) \o Flatten(Tail(ss))

\* edge.label || (type is unmarked or custom ? '' : type)
labelText(edge) ==
    IF edge.label # Undefined /\ edge.label # "" THEN edge.label
    ELSE IF edge.type = "unmarked" \/ edge.type = "custom" THEN ""
    ELSE edge.type

\* value.toFixed(2): a count of hundredths
toFixed2(value) == Div(value * 100, Unit)

formatPoint(p) == Pt(toFixed2(p.x), toFixed2(p.y))

calculateDiagramBounds(allNodes) ==
    IF Len(allNodes) = 0
    THEN [minX |-> 0, minY |-> 0, maxX |-> 400 * Unit, maxY |-> 300 * Unit,
          width |-> 400 * Unit, height |-> 300 * Unit]
    ELSE
    LET padding == 100 * Unit
        xs == {allNodes[i].position.x : i \in 1..Len(allNodes)}
        ys == {allNodes[i].position.y : i \in 1..Len(allNodes)}
        minX == (CHOOSE v \in xs : \A w \in xs : v <= w) - padding
        minY == (CHOOSE v \in ys : \A w \in ys : v <= w) - padding
        maxX == (CHOOSE v \in xs : \A w \in xs : v >= w) + padding
        maxY == (CHOOSE v \in ys : \A w \in ys : v >= w) + padding
    IN  [minX |-> minX, minY |-> minY, maxX |-> maxX, maxY |-> maxY,
         width |-> maxX - minX, height |-> maxY - minY]

\* faulty variant: the label of an edge without geometry is not cleared
canvasEdgeKeepLabel(edge, geometry) ==
    IF geometry = Null
    THEN [d |-> Path("", <<>>), x |-> 0, y |-> 0, rotate |-> {}, text |-> labelText(edge)]
    ELSE [d |-> geometry.path,
          x |-> geometry.labelPosition.x, y |-> geometry.labelPosition.y,
          rotate |-> geometry.labelAngle,
          text |-> labelText(edge)]

\* the canvas's update of one edge: the path's d attribute and the label
canvasEdge(edge, geometry) ==
    IF geometry = Null
    THEN [d |-> Path("", <<>>), x |-> 0, y |-> 0, rotate |-> {}, text |-> ""]
    ELSE [d |-> geometry.path,
          x |-> geometry.labelPosition.x, y |-> geometry.labelPosition.y,
          rotate |-> geometry.labelAngle,
          text |-> labelText(edge)]

\* the canvas's edge update, over every edge
canvasEdges(allNodes, allEdges) ==
    [i \in 1..Len(allEdges) |->
        canvasEdge(allEdges[i], getEdgeGeometry(allEdges[i], allNodes, allEdges))]

\* the canvas's node shapes
canvasNodes(allNodes) ==
    [i \in 1..Len(allNodes) |->
        [node |-> i, shape |-> getNodeShape(allNodes[i]),
         at |-> allNodes[i].position,
         dimensions |-> getNodeDimensions(allNodes[i])]]

\* one round of exportAsSVG's edge loop: the elements written for edge i
svgEdgeElement(i, edge, geometry) ==
    IF geometry = Null THEN <<>>
    ELSE
    LET pathData ==
          IF geometry.type = "curve"
          THEN Path("Q", <<formatPoint(geometry.start), formatPoint(geometry.control),
                           formatPoint(geometry.end)>>)
          ELSE IF geometry.type = "loop"
          THEN Path("C", <<formatPoint(geometry.start), formatPoint(geometry.control),
                           formatPoint(geometry.control2), formatPoint(geometry.end)>>)
          ELSE Path("L", <<formatPoint(geometry.start), formatPoint(geometry.end)>>)
    IN  IF labelText(edge) = ""
        THEN <<[kind |-> "path", edge |-> i, d |-> pathData, dashed |-> edge.isResultant]>>
        ELSE <<[kind |-> "path", edge |-> i, d |-> pathData, dashed |-> edge.isResultant],
               [kind |-> "text", edge |-> i,
                at |-> formatPoint(geometry.labelPosition),
                rotate |-> geometry.labelAngle,
                text |-> labelText(edge)]>>

\* exportAsSVG's edge loop: the elements written, in order; `edge` is the
\* index of the edge an element was written for
svgEdgeElements(allNodes, allEdges) ==
    Flatten([i \in 1..Len(allEdges) |->
        svgEdgeElement(i, allEdges[i],
                       computeEdgeGeometryForExport(allEdges[i], allNodes, allEdges))])

\* exportAsSVG's node loop
svgNodeElements(allNodes) ==
    [i \in 1..Len(allNodes) |->
        LET node == allNodes[i]
            dimensions == getNodeDimensions(node)
            shape == IF node.style.shape # Undefined THEN node.style.shape
                     ELSE getNodeShape(node)
            primitive == CASE shape = "ellipse"   -> "ellipse"
                           [] shape = "rectangle" -> "rect"
                           [] shape = "diamond"   -> "path"
                           [] shape = "circle"    -> "circle"
                           [] OTHER               -> "ellipse"
        IN  [node |-> i, primitive |-> primitive, at |-> node.position,
             dimensions |-> dimensions]]

\* exportAsSVG's viewBox attribute: min-x, min-y, width, height
svgViewBox(allNodes) ==
    LET bounds == calculateDiagramBounds(allNodes)
    IN  [minX |-> bounds.minX, minY |-> bounds.minY,
         width |-> bounds.width, height |-> bounds.height]

\* generateTikZCode's transform, (v - center) * scale with scale = 15 / maxDimension,
\* then toFixed(2); center2 is twice the center, minX + maxX
tikzCoordinate(v, center2, maxDimension, flip) ==
    Div(flip * (2 * v - center2) * 15 * 100, 2 * maxDimension)

\* faulty variant: the vertical flip is missing
convertPointNoFlip(point, bounds) ==
    LET maxDimension == Max(bounds.width, bounds.height)
    IN  Pt(tikzCoordinate(point.x, bounds.minX + bounds.maxX, maxDimension, 1),
           tikzCoordinate(point.y, bounds.minY + bounds.maxY, maxDimension, 1))

\* generateTikZCode's convertPoint
convertPoint(point, bounds) ==
    LET maxDimension == Max(bounds.width, bounds.height)
    IN  Pt(tikzCoordinate(point.x, bounds.minX + bounds.maxX, maxDimension, 1),
           tikzCoordinate(point.y, bounds.minY + bounds.maxY, maxDimension, -1))

\* generateTikZCode's node loop
tikzNodeElements(allNodes) ==
    LET bounds == calculateDiagramBounds(allNodes)
        maxDimension == Max(bounds.width, bounds.height)
    IN  [i \in 1..Len(allNodes) |->
            LET node == allNodes[i]
                style == CASE node.type = "vocabulary" -> "ellipse"
                           [] node.type = "practice"   -> "rectangle, rounded corners"
                           [] node.type = "test"       -> "diamond"
                           [] node.type = "operate"    -> "rectangle"
                           [] node.type = "custom"     -> "circle"
                           [] OTHER                    -> "circle"
            IN  [kind |-> "node", node |-> i, style |-> style,
                 at |-> Pt(tikzCoordinate(node.position.x, bounds.minX + bounds.maxX, maxDimension, 1),
                           tikzCoordinate(node.position.y, bounds.minY + bounds.maxY, maxDimension, -1)),
                 widthCm |-> Div(getNodeDimensions(node).width * 100, 40 * Unit),
                 heightCm |-> Div(getNodeDimensions(node).height * 100, 40 * Unit)]]

\* one round of generateTikZCode's edge loop: the \\draw and the label \\node
\* written for edge i; the label's text is the argument of escapeLaTeXText
tikzEdgeElement(i, edge, geometry, bounds) ==
    IF geometry = Null THEN <<>>
    ELSE
    LET pts ==
          IF geometry.type = "curve"
          THEN <<convertPoint(geometry.start, bounds), convertPoint(geometry.control, bounds),
                 convertPoint(geometry.end, bounds)>>
          ELSE IF geometry.type = "loop"
          THEN <<convertPoint(geometry.start, bounds), convertPoint(geometry.control, bounds),
                 convertPoint(geometry.control2, bounds), convertPoint(geometry.end, bounds)>>
          ELSE <<convertPoint(geometry.start, bounds), convertPoint(geometry.end, bounds)>>
    IN  IF labelText(edge) = ""
        THEN <<[kind |-> "draw", edge |-> i, dashed |-> edge.isResultant, pts |-> pts]>>
        ELSE <<[kind |-> "draw", edge |-> i, dashed |-> edge.isResultant, pts |-> pts],
               [kind |-> "label", edge |-> i,
                at |-> convertPoint(geometry.labelPosition, bounds),
                rotate |-> geometry.labelAngle,
                text |-> labelText(edge)]>>

\* generateTikZCode's edge loop
tikzEdgeElements(allNodes, allEdges) ==
    Flatten([i \in 1..Len(allEdges) |->
        tikzEdgeElement(i, allEdges[i],
                        computeEdgeGeometryForExport(allEdges[i], allNodes, allEdges),
                        calculateDiagramBounds(allNodes))])

-----------------------------------------------------------------------------
(* Specification SpecGeom: a snapshot of two nodes A and B and a few edges, *)
(* rendered by the canvas and by the two exporters                          *)

\* the most edges a snapshot holds
MaxEdges == 2

KindsA ==
    {<<"practice", Undefined, Undefined>>, <<"vocabulary", Undefined, Undefined>>,
     <<"test", Undefined, "small">>, <<"custom", Undefined, "large">>,
     <<"operate", "star", Undefined>>}

KindsB ==
    {<<"vocabulary", Undefined, Undefined>>, <<"exit", Undefined, "large">>,
     <<"custom", "triangle", "small">>}

PositionsB ==
    {Pt(200 * Unit, 0), Pt(0, 0), Pt(-90 * Unit, 120 * Unit), Pt(30 * Unit, 0)}

\* an id that no node of the snapshot carries
GhostId == 3

EdgeTemplates == {"fwd", "back", "loop", "danglingTarget", "danglingSource"}

\* the edge with id `id` between the nodes with ids a and b
EdgeOf(template, id, a, b) ==
    CASE template = "fwd"  -> MkEdge(id, a, b, "PV", Undefined, FALSE)
      [] template = "back" -> MkEdge(id, b, a, "custom", "c", TRUE)
      [] template = "loop" -> MkEdge(id, a, a, "unmarked", Undefined, FALSE)
      [] template = "danglingTarget" -> MkEdge(id, a, GhostId, "VP", Undefined, FALSE)
      [] OTHER -> MkEdge(id, GhostId, b, "sequence", Undefined, TRUE)

SeqsUpTo(S, n) == UNION {[1..k -> S] : k \in 1..n}

InitGeom ==
    /\ arg = Idle
    /\ out = Idle
    /\ \E ka \in KindsA, kb \in KindsB, pb \in PositionsB, idA \in {1, 2} :
          nodes = <<MkNode(idA, ka[1], ka[2], ka[3], Pt(0, 0)),
                    MkNode(3 - idA, kb[1], kb[2], kb[3], pb)>>
    /\ \E ts \in SeqsUpTo(EdgeTemplates, MaxEdges) :
          edges = [i \in 1..Len(ts) |-> EdgeOf(ts[i], i, nodes[1].id, nodes[2].id)]

\* the interactive canvas renders the snapshot
RenderCanvas ==
    /\ out = Idle
    /\ out' = [op |-> "canvas",
               edges |-> canvasEdges(nodes, edges),
               nodes |-> canvasNodes(nodes)]
    /\ UNCHANGED <<nodes, edges, arg>>

ExportAsSVG ==
    /\ out = Idle
    /\ out' = [op |-> "exportAsSVG",
               viewBox |-> svgViewBox(nodes),
               edges |-> svgEdgeElements(nodes, edges),
               nodes |-> svgNodeElements(nodes)]
    /\ UNCHANGED <<nodes, edges, arg>>

ExportAsLaTeX ==
    /\ out = Idle
    /\ out' = [op |-> "exportAsLaTeX",
               edges |-> tikzEdgeElements(nodes, edges),
               nodes |-> tikzNodeElements(nodes)]
    /\ UNCHANGED <<nodes, edges, arg>>

\* getEdgeOffset of both copies, applied to every edge of the snapshot
ComputeEdgeOffsets ==
    /\ out = Idle
    /\ out' = [op |-> "getEdgeOffset",
               canvas |-> [i \in 1..Len(edges) |-> getEdgeOffset(edges[i], edges)],
               export |-> [i \in 1..Len(edges) |-> getEdgeOffsetForExport(edges[i], edges)]]
    /\ UNCHANGED <<nodes, edges, arg>>

\* the geometry of every edge, from the exporters' and from the canvas's copy
ComputeEdgeGeometry ==
    /\ out = Idle
    /\ out' = [op |-> "computeEdgeGeometry",
               export |-> [i \in 1..Len(edges) |->
                              computeEdgeGeometryForExport(edges[i], nodes, edges)],
               canvas |-> [i \in 1..Len(edges) |-> getEdgeGeometry(edges[i], nodes, edges)]]
    /\ UNCHANGED <<nodes, edges, arg>>

\* the orders an array of n elements can be in
OrdersOf(n) == {p \in [1..n -> 1..n] : \A i, j \in 1..n : p[i] = p[j] => i = j}

Permuted(array, p) == [i \in 1..Len(array) |-> array[p[i]]]

\* the offset and the geometry of every edge, from both copies, with the
\* nodes array and the allEdges array in another order
ComputeOnPermutedArrays ==
    /\ out = Idle
    /\ \E p \in OrdersOf(Len(nodes)), q \in OrdersOf(Len(edges)) :
          out' = [op |-> "computeOnPermutedArrays", nodes |-> p, edges |-> q,
                  exportOffset |-> [i \in 1..Len(edges) |->
                      getEdgeOffsetForExport(edges[i], Permuted(edges, q))],
                  canvasOffset |-> [i \in 1..Len(edges) |->
                      getEdgeOffset(edges[i], Permuted(edges, q))],
                  export |-> [i \in 1..Len(edges) |->
                      computeEdgeGeometryForExport(edges[i], Permuted(nodes, p),
                                                   Permuted(edges, q))],
                  canvas |-> [i \in 1..Len(edges) |->
                      getEdgeGeometry(edges[i], Permuted(nodes, p), Permuted(edges, q))]]
    /\ UNCHANGED <<nodes, edges, arg>>

NextGeom ==
    \/ RenderCanvas
    \/ ExportAsSVG
    \/ ExportAsLaTeX
    \/ ComputeEdgeOffsets
    \/ ComputeEdgeGeometry
    \/ ComputeOnPermutedArrays

SpecGeom == InitGeom /\ [][NextGeom]_vars

-----------------------------------------------------------------------------
(* Claims checked under SpecGeom *)

\* exactly two edges, one from nodes[1] to nodes[2] and one back
AntiParallelPair ==
    /\ Len(edges) = 2
    /\ \E i, j \in 1..2 :
          /\ i # j
          /\ edges[i].source = nodes[1].id /\ edges[i].target = nodes[2].id
          /\ edges[j].source = nodes[2].id /\ edges[j].target = nodes[1].id

ApartAB == nodes[1].position # nodes[2].position

\* C1 (as stated): for one A->B edge and one B->A edge the two offsets have equal
\* magnitude and opposite sign, and both edges are drawn as curves.
C1_OppositeOffsets ==
    AntiParallelPair =>
        /\ out.op = "getEdgeOffset" =>
              /\ out.canvas[1] # 0 /\ out.canvas[1] = -out.canvas[2]
              /\ out.export[1] # 0 /\ out.export[1] = -out.export[2]
        /\ out.op = "canvas" => \A i \in 1..2 : out.edges[i].d.cmd = "Q"
        /\ out.op = "exportAsSVG" =>
              \A k \in 1..Len(out.edges) :
                 out.edges[k].kind = "path" => out.edges[k].d.cmd = "Q"

\* C1 (amended): for one A->B edge and one B->A edge the two offsets are equal,
\* 30 in magnitude and of the same sign (each is measured in its own edge's
\* source-to-target frame); both edges are drawn as curves when the two nodes
\* are at different positions.
C1_EqualOffsetsBothCurves ==
    AntiParallelPair =>
        /\ out.op = "getEdgeOffset" =>
              /\ Abs(out.canvas[1]) = 30 * Unit /\ out.canvas[1] = out.canvas[2]
              /\ Abs(out.export[1]) = 30 * Unit /\ out.export[1] = out.export[2]
        /\ (out.op = "canvas" /\ ApartAB) => \A i \in 1..2 : out.edges[i].d.cmd = "Q"
        /\ (out.op = "exportAsSVG" /\ ApartAB) =>
              /\ Len(SelectSeq(out.edges, LAMBDA el : el.kind = "path")) = 2
              /\ \A k \in 1..Len(out.edges) :
                    out.edges[k].kind = "path" => out.edges[k].d.cmd = "Q"

C1_Witness ==
    /\ AntiParallelPair /\ ApartAB
    /\ out.op = "exportAsSVG"
    /\ nodes[1].id > nodes[2].id
    /\ edges[1].source = nodes[2].id
    /\ Len(out.edges) >= 2

\* (b - a) x (p - a): its sign tells on which side of the line a -> b p lies
Cross(p, a, b) == (b.x - a.x) * (p.y - a.y) - (b.y - a.y) * (p.x - a.x)

\* C3: for an A->B edge and a B->A edge between nodes at different positions the
\* two quadratic control points lie on strictly opposite sides of the line
\* through the two node centers, in the canvas and in the SVG export.
C3_OppositeSides ==
    (AntiParallelPair /\ ApartAB) =>
        /\ out.op = "canvas" =>
              /\ \A i \in 1..2 : out.edges[i].d.cmd = "Q"
              /\ Sign(Cross(out.edges[1].d.pts[2], nodes[1].position, nodes[2].position))
                   * Sign(Cross(out.edges[2].d.pts[2], nodes[1].position, nodes[2].position)) = -1
        /\ out.op = "exportAsSVG" =>
              LET paths == SelectSeq(out.edges, LAMBDA el : el.kind = "path")
                  a == formatPoint(nodes[1].position)
                  b == formatPoint(nodes[2].position)
              IN  /\ Len(paths) = 2
                  /\ \A k \in 1..2 : paths[k].d.cmd = "Q"
                  /\ Sign(Cross(paths[1].d.pts[2], a, b))
                       * Sign(Cross(paths[2].d.pts[2], a, b)) = -1

C3_Witness ==
    /\ AntiParallelPair /\ ApartAB
    /\ out.op = "canvas"
    /\ nodes[1].id > nodes[2].id
    /\ edges[1].source = nodes[1].id
    /\ out.edges[1].d.cmd = "Q"

\* the scenario of C5
RectangleToEllipse ==
    /\ getNodeShape(nodes[1]) = "rectangle"
    /\ getNodeDimensions(nodes[1]).width = 100 * Unit
    /\ getNodeDimensions(nodes[1]).height = 50 * Unit
    /\ nodes[1].position = Pt(0, 0)
    /\ getNodeShape(nodes[2]) = "ellipse"
    /\ getNodeDimensions(nodes[2]).width = 100 * Unit
    /\ getNodeDimensions(nodes[2]).height = 50 * Unit
    /\ nodes[2].position = Pt(200 * Unit, 0)
    /\ Len(edges) = 1
    /\ edges[1].type = "PV"
    /\ edges[1].source = nodes[1].id /\ edges[1].target = nodes[2].id

\* C5: rectangle 100x50 at (0,0), ellipse 100x50 at (200,0), a single PV edge
\* A->B: the geometry is straight, from (50,0) relative to A to (-50,0)
\* relative to B.
C5_StraightRectangleToEllipse ==
    RectangleToEllipse =>
        /\ out.op = "getEdgeOffset" => out.canvas[1] = 0 /\ out.export[1] = 0
        /\ out.op = "canvas" =>
              out.edges[1].d = Path("L", <<Pt(50 * Unit, 0), Pt(200 * Unit - 50 * Unit, 0)>>)
        /\ out.op = "exportAsSVG" =>
              /\ Len(out.edges) >= 1
              /\ out.edges[1].kind = "path"
              /\ out.edges[1].d = Path("L", <<Pt(50 * 100, 0), Pt(200 * 100 - 50 * 100, 0)>>)

C5_Witness == RectangleToEllipse /\ out.op = "exportAsSVG" /\ Len(out.edges) = 2

\* an edge whose source id or target id matches no node of the snapshot
Dangling(edge) == ~hasNode(nodes, edge.source) \/ ~hasNode(nodes, edge.target)

HasDangling == \E i \in 1..Len(edges) : Dangling(edges[i])

\* the snapshot's edges without the dangling ones
WithoutDangling == SelectSeq(edges, LAMBDA e : ~Dangling(e))

\* the elements an exporter wrote for edge i
ElementsOf(i, kind) == SelectSeq(out.edges, LAMBDA el : el.edge = i /\ el.kind = kind)

\* C6: for an edge whose source or target matches no node the geometry is null
\* and the canvas, the SVG exporter and the TikZ exporter draw no path and no
\* label for it, while every node and every other edge is still emitted, drawn
\* as it is in the diagram without the dangling edges.
C6_DanglingSkipped ==
    /\ out.op = "canvas" =>
          /\ Len(out.nodes) = Len(nodes)
          /\ \A i \in 1..Len(edges) :
                IF Dangling(edges[i])
                THEN /\ getEdgeGeometry(edges[i], nodes, edges) = Null
                     /\ out.edges[i].d = Path("", <<>>)
                     /\ out.edges[i].text = ""
                ELSE LET g == getEdgeGeometry(edges[i], nodes, WithoutDangling)
                     IN  /\ g # Null
                         /\ out.edges[i].d = g.path
                         /\ out.edges[i].text = labelText(edges[i])
    /\ out.op \in {"exportAsSVG", "exportAsLaTeX"} =>
          /\ Len(out.nodes) = Len(nodes)
          /\ \A i \in 1..Len(edges) :
                LET drawn == IF out.op = "exportAsSVG" THEN ElementsOf(i, "path")
                             ELSE ElementsOf(i, "draw")
                    labels == IF out.op = "exportAsSVG" THEN ElementsOf(i, "text")
                              ELSE ElementsOf(i, "label")
                IN  IF Dangling(edges[i])
                    THEN /\ computeEdgeGeometryForExport(edges[i], nodes, edges) = Null
                         /\ drawn = <<>> /\ labels = <<>>
                    ELSE /\ Len(drawn) = 1
                         /\ Len(labels) = (IF labelText(edges[i]) = "" THEN 0 ELSE 1)
                         /\ computeEdgeGeometryForExport(edges[i], nodes, WithoutDangling)
                              = computeEdgeGeometryForExport(edges[i], nodes, edges)

C6_Witness ==
    /\ out.op = "exportAsLaTeX"
    /\ Len(edges) = 2
    /\ Dangling(edges[1]) /\ ~Dangling(edges[2])
    /\ Len(out.edges) = 2

\* C7: the canvas's geometry and the exporters' geometry agree for every edge
\* of every snapshot: null together, and otherwise the same path (class, start,
\* end, control points), the same label anchor and the same label angle.
C7_RenderersAgree ==
    out.op = "canvas" =>
        \A i \in 1..Len(edges) :
            LET g == computeEdgeGeometryForExport(edges[i], nodes, edges)
                c == getEdgeGeometry(edges[i], nodes, edges)
            IN  IF g = Null THEN c = Null /\ out.edges[i].d = Path("", <<>>)
                ELSE /\ c # Null
                     /\ out.edges[i].d = g.path
                     /\ Pt(out.edges[i].x, out.edges[i].y) = g.labelPosition
                     /\ out.edges[i].rotate = g.labelAngle

\* the same, for nodes at different positions only
C7_AgreeWhenApart ==
    (out.op = "canvas" /\ ApartAB) =>
        \A i \in 1..Len(edges) :
            LET g == computeEdgeGeometryForExport(edges[i], nodes, edges)
            IN  IF g = Null THEN out.edges[i].d = Path("", <<>>)
                ELSE /\ out.edges[i].d = g.path
                     /\ Pt(out.edges[i].x, out.edges[i].y) = g.labelPosition
                     /\ out.edges[i].rotate = g.labelAngle

\* the one transform of the TikZ picture: x' = (x - cx) * s, y' = -(y - cy) * s,
\* with (cx, cy) the center of the padded bounding box and s = 15 / its larger
\* side, written with two decimals
TikZImage(p) ==
    LET b == calculateDiagramBounds(nodes)
        m == Max(b.width, b.height)
    IN  Pt(Div((2 * p.x - (b.minX + b.maxX)) * 15 * 100, 2 * m),
           Div(-(2 * p.y - (b.minY + b.maxY)) * 15 * 100, 2 * m))

\* C8: every coordinate in the TikZ output (node centers, edge start and end,
\* curve control point, both loop control points, label anchors) is the image
\* of the screen-space value of computeEdgeGeometry under one transform.
C8_OneTransform ==
    out.op = "exportAsLaTeX" =>
        /\ \A n \in 1..Len(nodes) : out.nodes[n].at = TikZImage(nodes[n].position)
        /\ \A i \in 1..Len(edges) :
              LET g == computeEdgeGeometryForExport(edges[i], nodes, edges)
                  draws == ElementsOf(i, "draw")
                  labels == ElementsOf(i, "label")
              IN  g # Null =>
                    /\ Len(draws) = 1
                    /\ draws[1].pts =
                         (IF g.type = "curve"
                          THEN <<TikZImage(g.start), TikZImage(g.control), TikZImage(g.end)>>
                          ELSE IF g.type = "loop"
                          THEN <<TikZImage(g.start), TikZImage(g.control),
                                 TikZImage(g.control2), TikZImage(g.end)>>
                          ELSE <<TikZImage(g.start), TikZImage(g.end)>>)
                    /\ \A k \in 1..Len(labels) : labels[k].at = TikZImage(g.labelPosition)

C8_Witness ==
    /\ out.op = "exportAsLaTeX"
    /\ ApartAB
    /\ nodes[2].position.y # 0
    /\ \A k \in 1..Len(out.edges) :
          out.edges[k].kind = "draw" => Len(out.edges[k].pts) = 3
    /\ \E k \in 1..Len(out.edges) : out.edges[k].kind = "label"

GeometryComputed == out.op = "computeEdgeGeometry"

\* twice the signed area of the triangle s, e, p: its sign tells the side of
\* the chord from s to e on which p lies, its size the distance from the chord
SideOf(s, e, p) == (e.x - s.x) * (p.y - s.y) - (e.y - s.y) * (p.x - s.x)

\* the point of the quadratic curve at t = 0.5
CurveMid(s, c, e) == Pt(Div(s.x + 2 * c.x + e.x, 4), Div(s.y + 2 * c.y + e.y, 4))

\* the label is on the side of the chord where the control point is, and
\* farther from the chord than the middle of the curve
OnConvexSide(s, c, e, label) ==
    /\ Sign(SideOf(s, e, label)) = Sign(SideOf(s, e, c))
    /\ Abs(SideOf(s, e, label)) > Abs(SideOf(s, e, CurveMid(s, c, e)))

ExportCurve(i) == out.export[i] # Null /\ out.export[i].type = "curve"

CanvasCurve(i) == out.canvas[i] # Null /\ out.canvas[i].path.cmd = "Q"

Distance(p, q) == Hypot(p.x - q.x, p.y - q.y)

\* the control point c is farther from each end node than the point where
\* the curve with ends s and e leaves that node
ControlOutsideNodes(i, s, c, e) ==
    /\ Distance(c, findNode(nodes, edges[i].source).position)
          > Distance(s, findNode(nodes, edges[i].source).position)
    /\ Distance(c, findNode(nodes, edges[i].target).position)
          > Distance(e, findNode(nodes, edges[i].target).position)

\* C15 (as stated): for every curved edge the label anchor is on the convex
\* side of the curve: on the control point's side of the chord from start to
\* end, and farther from the chord than the curve's point at t = 0.5.
C15_LabelOnConvexSide ==
    GeometryComputed =>
        \A i \in 1..Len(edges) :
            /\ ExportCurve(i) =>
                  OnConvexSide(out.export[i].start, out.export[i].control,
                               out.export[i].end, out.export[i].labelPosition)
            /\ CanvasCurve(i) =>
                  OnConvexSide(out.canvas[i].path.pts[1], out.canvas[i].path.pts[2],
                               out.canvas[i].path.pts[3], out.canvas[i].labelPosition)

\* C15 (amended): the label anchor of a curved edge is on the convex side of
\* the curve whenever the control point lies outside both end nodes, that is
\* farther from each node's center than the curve's end on that node.
C15_ConvexWhenControlOutside ==
    GeometryComputed =>
        \A i \in 1..Len(edges) :
            /\ (ExportCurve(i) /\ ControlOutsideNodes(i, out.export[i].start,
                                    out.export[i].control, out.export[i].end)) =>
                  OnConvexSide(out.export[i].start, out.export[i].control,
                               out.export[i].end, out.export[i].labelPosition)
            /\ (CanvasCurve(i) /\ ControlOutsideNodes(i, out.canvas[i].path.pts[1],
                                    out.canvas[i].path.pts[2], out.canvas[i].path.pts[3])) =>
                  OnConvexSide(out.canvas[i].path.pts[1], out.canvas[i].path.pts[2],
                               out.canvas[i].path.pts[3], out.canvas[i].labelPosition)

\* both directions and both signs of the offset, with the control point outside
C15_Witness ==
    /\ GeometryComputed
    /\ AntiParallelPair
    /\ ExportCurve(1) /\ ExportCurve(2) /\ CanvasCurve(1) /\ CanvasCurve(2)
    /\ \A i \in 1..2 :
          ControlOutsideNodes(i, out.export[i].start, out.export[i].control,
                              out.export[i].end)
    /\ Sign(SideOf(out.export[1].start, out.export[1].end, out.export[1].control))
          # Sign(SideOf(out.export[2].end, out.export[2].start, out.export[2].control))

-----------------------------------------------------------------------------
(* Specification SpecShape: a diagram of one node of any type, shape and   *)
(* size that carries one self-loop, measured and rendered                  *)

InitShape ==
    /\ arg = Idle
    /\ out = Idle
    /\ \E type \in NodeTypes, shape \in ShapeOverrides, size \in SizeClasses,
          pos \in ProbePositions :
          nodes = <<MkNode(1, type, shape, size, pos)>>
    /\ edges = <<MkEdge(1, 1, 1, "loop", Undefined, FALSE)>>

\* nodeUtils' getNodeDimensions on the node
GetNodeDimensions ==
    /\ out = Idle
    /\ out' = [op |-> "getNodeDimensions", dimensions |-> getNodeDimensions(nodes[1])]
    /\ UNCHANGED <<nodes, edges, arg>>

\* SimpleApp's getNodeDimensions on the node
SimpleGetNodeDimensions ==
    /\ out = Idle
    /\ out' = [op |-> "SimpleApp.getNodeDimensions",
               dimensions |-> simpleGetNodeDimensions(nodes[1])]
    /\ UNCHANGED <<nodes, edges, arg>>

NextShape ==
    \/ GetNodeDimensions
    \/ SimpleGetNodeDimensions
    \/ ComputeEdgeGeometry
    \/ RenderCanvas
    \/ ExportAsSVG
    \/ ExportAsLaTeX

SpecShape == InitShape /\ [][NextShape]_vars

\* distance from the point (apx, apy) to the segment from (0, 0) to (abx, aby)
SegmentDistance(apx, apy, abx, aby) ==
    IF apx * abx + apy * aby <= 0 THEN Hypot(apx, apy)
    ELSE IF apx * abx + apy * aby >= abx * abx + aby * aby
    THEN Hypot(apx - abx, apy - aby)
    ELSE Div(Abs(abx * apy - aby * apx), Hypot(abx, aby))

MinOf(S) == CHOOSE x \in S : \A y \in S : x <= y

\* distance from the point o to the closed polygon through the given vertices
PolygonDistance(o, vertices) ==
    MinOf({SegmentDistance(o.x - vertices[i].x, o.y - vertices[i].y,
                           vertices[(i % Len(vertices)) + 1].x - vertices[i].x,
                           vertices[(i % Len(vertices)) + 1].y - vertices[i].y)
              : i \in 1..Len(vertices)})

\* distance from o to the ellipse measured along the ray from the center,
\* which is at least the distance from o to the ellipse
EllipseRadialGap(o, rx, ry) ==
    Abs(Div(Hypot(o.x, o.y) * NormScale,
            LengthOrOne(Hypot(Div(o.x * NormScale, rx), Div(o.y * NormScale, ry))))
        - Hypot(o.x, o.y))

\* sin and cos of i * 36 degrees, in 1/NormScale
Sin36 == <<5878, 9511, 9511, 5878, 0, -5878, -9511, -9511, -5878, 0>>
Cos36 == <<8090, 3090, -3090, -8090, -10000, -8090, -3090, 3090, 8090, 10000>>

\* the outlines the canvas draws, relative to the node's position
rectangleOutline(w, h) ==
    <<Pt(-(w \div 2), -(h \div 2)), Pt(w \div 2, -(h \div 2)),
      Pt(w \div 2, h \div 2), Pt(-(w \div 2), h \div 2)>>

diamondOutline(size) == <<Pt(0, -size), Pt(size, 0), Pt(0, size), Pt(-size, 0)>>

triangleOutline(size) ==
    <<Pt(0, -size), Pt(Div(size * 866, 1000), Div(size * 5, 10)),
      Pt(-Div(size * 866, 1000), Div(size * 5, 10))>>

hexagonOutline(size) ==
    <<Pt(size, 0), Pt(Div(size * 5, 10), Div(size * 866, 1000)),
      Pt(-Div(size * 5, 10), Div(size * 866, 1000)), Pt(-size, 0),
      Pt(-Div(size * 5, 10), -Div(size * 866, 1000)),
      Pt(Div(size * 5, 10), -Div(size * 866, 1000))>>

\* vertex i at angle i * 36 - 90 degrees, radius size (even i) or 0.4 size
starOutline(size) ==
    [k \in 1..10 |->
        LET i == k % 10
            radius == IF i % 2 = 0 THEN size ELSE Div(size * 4, 10)
        IN  Pt(Div(Sin36[k] * radius, NormScale), Div(-Cos36[k] * radius, NormScale))]

\* how far the offset o from the node's position is from the drawn outline
OutlineDistance(node, o) ==
    LET dimensions == getNodeDimensions(node)
        shape == getNodeShape(node)
    IN  CASE shape = "ellipse"   -> EllipseRadialGap(o, dimensions.width \div 2,
                                                     dimensions.height \div 2)
          [] shape = "rectangle" -> PolygonDistance(o, rectangleOutline(dimensions.width,
                                                                        dimensions.height))
          [] shape = "diamond"   -> PolygonDistance(o, diamondOutline(dimensions.radius))
          [] shape = "triangle"  -> PolygonDistance(o, triangleOutline(dimensions.radius))
          [] shape = "hexagon"   -> PolygonDistance(o, hexagonOutline(dimensions.radius))
          [] shape = "star"      -> PolygonDistance(o, starOutline(dimensions.radius))
          [] OTHER               -> Abs(Hypot(o.x, o.y) - dimensions.radius)

\* the distance, in 1/Unit, that counts as small for a self-loop's anchors
LoopSlack == 21 * Unit

NearOutline(node, p) ==
    OutlineDistance(node, Pt(p.x - node.position.x, p.y - node.position.y)) <= LoopSlack

LoopComputed == out.op = "computeEdgeGeometry"

HalfScaledBaseWidth(node) == (100 * sizeMultiplier(node) * Unit) \div 20

\* C13: getNodeDimensions always returns a radius, and for a node whose
\* effective shape is rectangle the radius is half of the scaled base width
\* (half of 100 times the size multiplier), for small, medium and large.
C13_RectangleRadiusHalfWidth ==
    out.op \in {"getNodeDimensions", "SimpleApp.getNodeDimensions"} =>
        /\ "radius" \in DOMAIN out.dimensions
        /\ out.dimensions.radius > 0
        /\ getNodeShape(nodes[1]) = "rectangle" =>
              out.dimensions.radius = HalfScaledBaseWidth(nodes[1])

\* the shape on which getNodeConnectionPoint puts the ends of edges
boundaryShape(node) ==
    IF getNodeShape(node) \in {"ellipse", "rectangle", "diamond"}
    THEN getNodeShape(node) ELSE "circle"

\* the SVG primitive that draws a shape
PrimitiveOf(shape) ==
    CASE shape = "ellipse"   -> "ellipse"
      [] shape = "rectangle" -> "rect"
      [] shape = "diamond"   -> "path"
      [] OTHER               -> "circle"

\* the shape key at the head of a TikZ node style
ShapeKey(style) == IF style = "rectangle, rounded corners" THEN "rectangle" ELSE style

\* C17: for every node the primitive written by exportAsSVG and the shape
\* key written by generateTikZCode are those of the node's effective shape
\* (the style.shape override if present, else the default of the type), the
\* shape getNodeConnectionPoint uses for the ends of edges.
C17_ExportedShapeIsEffectiveShape ==
    /\ out.op = "exportAsSVG" =>
          \A i \in 1..Len(nodes) :
              out.nodes[i].primitive = PrimitiveOf(boundaryShape(nodes[i]))
    /\ out.op = "exportAsLaTeX" =>
          \A i \in 1..Len(nodes) :
              ShapeKey(out.nodes[i].style) = boundaryShape(nodes[i])

\* the exporters agree with the effective shape for the listed shapes when
\* the node carries no override and is not an exit node
C17_DefaultShapesAgree ==
    /\ out.op = "exportAsLaTeX" =>
          \A i \in 1..Len(nodes) :
              (nodes[i].style.shape = Undefined /\ nodes[i].type # "exit") =>
                  ShapeKey(out.nodes[i].style) = boundaryShape(nodes[i])
    /\ out.op = "exportAsSVG" =>
          \A i \in 1..Len(nodes) :
              getNodeShape(nodes[i]) \in {"ellipse", "rectangle", "diamond", "circle"} =>
                  out.nodes[i].primitive = PrimitiveOf(boundaryShape(nodes[i]))

-----------------------------------------------------------------------------
(* Specification SpecAngle: the label rotation for one line angle, in      *)
(* whole degrees, from both copies of the normalisation                    *)

\* Math.atan2 gives angles from -180 to 180 degrees
MaxAngle == 180

InitAngle ==
    /\ nodes = <<>>
    /\ edges = <<>>
    /\ out = Idle
    /\ \E angleDeg \in -MaxAngle..MaxAngle : arg = [angleDeg |-> angleDeg]

NormalizeAngle ==
    /\ out = Idle
    /\ out' = [op |-> "normalizeAngle", angle |-> normalizeAngle(arg.angleDeg)]
    /\ UNCHANGED <<nodes, edges, arg>>

NormalizeLabelAngle ==
    /\ out = Idle
    /\ out' = [op |-> "normalizeLabelAngle", angle |-> normalizeLabelAngle(arg.angleDeg)]
    /\ UNCHANGED <<nodes, edges, arg>>

NextAngle == NormalizeAngle \/ NormalizeLabelAngle

SpecAngle == InitAngle /\ [][NextAngle]_vars

Normalized == out.op \in {"normalizeAngle", "normalizeLabelAngle"}

\* C16: for every line angle from -180 to 180 degrees the label rotation is
\* greater than -90 and at most 90 degrees, and differs from the line angle
\* by a multiple of 180 degrees.
C16_RotationInHalfTurn ==
    Normalized =>
        /\ out.angle > -90
        /\ out.angle <= 90
        /\ (out.angle - arg.angleDeg) % 180 = 0

C16_Witness ==
    /\ Normalized
    /\ arg.angleDeg = -90
    /\ out.angle = 90

-----------------------------------------------------------------------------
(* Specification SpecOffset: getEdgeOffset on up to MaxRelated edges of two *)
(* nodes, in both directions, in both id orders                             *)

\* the most edges of the offset snapshots
MaxRelated == 4

OffsetTemplates == {"fwd", "back", "loop"}

InitOffset ==
    /\ arg = Idle
    /\ out = Idle
    /\ \E idA \in {1, 2} :
          nodes = <<MkNode(idA, "vocabulary", Undefined, Undefined, Pt(0, 0)),
                    MkNode(3 - idA, "practice", Undefined, Undefined, Pt(200 * Unit, 0))>>
    /\ \E ts \in SeqsUpTo(OffsetTemplates, MaxRelated), descending \in BOOLEAN :
          edges = [i \in 1..Len(ts) |->
                      EdgeOf(ts[i], IF descending THEN Len(ts) + 1 - i ELSE i,
                             nodes[1].id, nodes[2].id)]

CanvasOffsets ==
    /\ out = Idle
    /\ out' = [op |-> "getEdgeOffset",
               offset |-> [i \in 1..Len(edges) |-> getEdgeOffset(edges[i], edges)]]
    /\ UNCHANGED <<nodes, edges, arg>>

ExportOffsets ==
    /\ out = Idle
    /\ out' = [op |-> "getEdgeOffsetForExport",
               offset |-> [i \in 1..Len(edges) |-> getEdgeOffsetForExport(edges[i], edges)]]
    /\ UNCHANGED <<nodes, edges, arg>>

NextOffset == CanvasOffsets \/ ExportOffsets

SpecOffset == InitOffset /\ [][NextOffset]_vars

OffsetsComputed == out.op \in {"getEdgeOffset", "getEdgeOffsetForExport"}

\* the edges joining the same unordered node pair as edge i
SamePair(i) == relatedEdges(edges[i], edges)

\* +1 when the edge runs from the smaller node id to the larger, else -1
Orientation(i) == IF edges[i].source < edges[i].target THEN 1 ELSE -1

\* the edge of i's pair that mirrors j in the order of sorted edge ids
Mirror(i, j, k) ==
    Cardinality({m \in SamePair(i) : edges[m].id < edges[j].id})
      = Cardinality({m \in SamePair(i) : edges[m].id > edges[k].id})

-----------------------------------------------------------------------------
(* LaTeX escaping.  A text is the sequence of its characters. *)

\* the characters labels are drawn from: a letter, the backslash and the
\* characters the escaping functions and the heuristics single out
Alphabet == {"a", "\\", "$", "^", "_", "#", "%", "&", "{", "}", "~"}

\* \w within the alphabet
WordChars == {"a", "_"}

\* [a-zA-Z] within the alphabet
Letters == {"a"}

\* text.replace(/[...]/g, ...): every character in the domain of `replacement`
\* is replaced by the text `replacement` gives for it
ReplaceEach(text, replacement) ==
    Flatten([i \in 1..Len(text) |->
        IF text[i] \in DOMAIN replacement THEN replacement[text[i]] ELSE <<text[i]>>])

\* '\\$1', '\\$&': the matched character of `set` behind a backslash
Backslashed(set) == [c \in set |-> <<"\\", c>>]

textbackslash ==
    [c \in {"\\"} |->
        <<"\\", "t", "e", "x", "t", "b", "a", "c", "k", "s", "l", "a", "s", "h", "{", "}">>]

textasciicircum ==
    [c \in {"^"} |->
        <<"\\", "t", "e", "x", "t", "a", "s", "c", "i", "i", "c", "i", "r", "c", "u", "m", "{", "}">>]

textasciitilde ==
    [c \in {"~"} |->
        <<"\\", "t", "e", "x", "t", "a", "s", "c", "i", "i", "t", "i", "l", "d", "e", "{", "}">>]

\* some c1 at position i is directly followed by a character of `set`
FollowedBy(text, c1, set) ==
    \E i \in 1..(Len(text) - 1) : text[i] = c1 /\ text[i + 1] \in set

\* /\$.*?\$/ and /\$[^$]*\$/: two dollar signs
TwoDollars(text) == \E i, j \in 1..Len(text) : i < j /\ text[i] = "$" /\ text[j] = "$"

\* exportUtils' isLaTeXContent: /\\\w+/, /\$.*?\$/, /\\[{}]/, /[_^]/ (the
\* \frac{, \mathbb{, \mathcal{ and \text{ patterns are instances of the first)
isLaTeXContent(text) ==
    \/ FollowedBy(text, "\\", WordChars)
    \/ TwoDollars(text)
    \/ FollowedBy(text, "\\", {"{", "}"})
    \/ \E i \in 1..Len(text) : text[i] \in {"_", "^"}

\* exportUtils' escapeLaTeXText
escapeLaTeXText(text) ==
    IF isLaTeXContent(text)
    THEN ReplaceEach(text, Backslashed({"&", "%"}))
    ELSE LET s1 == ReplaceEach(text, textbackslash)
             s2 == ReplaceEach(s1, Backslashed({"&", "%", "$", "#", "_", "{", "}"}))
             s3 == ReplaceEach(s2, textasciicircum)
         IN  ReplaceEach(s3, textasciitilde)

\* /\^{[^}]*}/ and /_{[^}]*}/: c, an opening brace, later a closing brace
BracedScript(text, c) ==
    \E i, j \in 1..Len(text) :
        /\ i + 1 < j
        /\ text[i] = c /\ text[i + 1] = "{" /\ text[j] = "}"

\* SimpleApp's isLaTeXContent: math delimiters, named commands (all of them a
\* backslash and a letter, as the general command pattern), braced scripts.
\* \( \) \[ \] need characters outside the alphabet.
simpleIsLaTeXContent(text) ==
    \/ TwoDollars(text)
    \/ FollowedBy(text, "\\", Letters)
    \/ BracedScript(text, "^")
    \/ BracedScript(text, "_")

\* SimpleApp's smartEscapeForTikZ
smartEscapeForTikZ(text) ==
    IF simpleIsLaTeXContent(text)
    THEN ReplaceEach(text, Backslashed({"#", "%", "&"}))
    ELSE LET s1 == ReplaceEach(text, textbackslash)
         IN  ReplaceEach(s1, Backslashed({"{", "}", "#", "%", "&", "_", "^"}))

-----------------------------------------------------------------------------
(* Specification SpecTex: a label, escaped by each of the two exporters *)

\* the longest label
MaxLabelLen == 3

InitTex ==
    /\ nodes = <<>>
    /\ edges = <<>>
    /\ out = Idle
    /\ \E text \in UNION {[1..k -> Alphabet] : k \in 0..MaxLabelLen} :
          arg = [text |-> text]

EscapeLaTeXText ==
    /\ out = Idle
    /\ out' = [op |-> "escapeLaTeXText",
               latex |-> isLaTeXContent(arg.text),
               text |-> escapeLaTeXText(arg.text)]
    /\ UNCHANGED <<nodes, edges, arg>>

SmartEscapeForTikZ ==
    /\ out = Idle
    /\ out' = [op |-> "smartEscapeForTikZ",
               latex |-> simpleIsLaTeXContent(arg.text),
               text |-> smartEscapeForTikZ(arg.text)]
    /\ UNCHANGED <<nodes, edges, arg>>

NextTex == EscapeLaTeXText \/ SmartEscapeForTikZ

SpecTex == InitTex /\ [][NextTex]_vars

Escaped == out.op \in {"escapeLaTeXText", "smartEscapeForTikZ"}

\* the label with every # % & prefixed by one backslash, all else unchanged
OnlyTikZBreakersEscaped(text) == ReplaceEach(text, Backslashed({"#", "%", "&"}))

\* C10: for every label classified as already-LaTeX the emitted text is the
\* label with each # % & prefixed by one backslash and every other character
\* unchanged.
C10_LaTeXLabelKeepsMarkup ==
    (Escaped /\ out.latex) => out.text = OnlyTikZBreakersEscaped(arg.text)

\* the label escaped for literal rendering in one pass: every character is
\* replaced once, and no replacement text is looked at again
FullyEscaped(text) ==
    ReplaceEach(text, textbackslash @@ Backslashed({"&", "%", "$", "#", "_", "{", "}"})
                        @@ textasciicircum @@ textasciitilde)

\* C11: for every label classified as plain text escapeLaTeXText returns the
\* label with each backslash as \textbackslash{}, each of & % $ # _ { } behind
\* one backslash, each ^ as \textasciicircum{}, each ~ as \textasciitilde{},
\* every other character unchanged and no replacement text escaped again.
C11_PlainTextFullyEscaped ==
    (out.op = "escapeLaTeXText" /\ ~out.latex) => out.text = FullyEscaped(arg.text)

-----------------------------------------------------------------------------
(* JSON export and import.  An optional field holds the empty set when it   *)
(* is undefined and a singleton when it is set; a JSON object is a function *)
(* from the keys it has to their values.                                    *)

\* one key of a JSON object
Key(name, value) == [k \in {name} |-> value]

\* the key, unless the field is undefined: JSON.stringify drops it then
OptionalKey(name, field) ==
    IF field = {} THEN <<>> ELSE Key(name, CHOOSE v \in field : TRUE)

\* JSON.stringify on a node of the editor
stringifyNode(node) ==
    Key("id", node.id) @@ Key("type", node.type) @@ Key("position", node.position)
      @@ Key("label", node.label) @@ OptionalKey("style", node.style)

\* JSON.stringify on an edge of the editor
stringifyEdge(edge) ==
    Key("id", edge.id) @@ Key("source", edge.source) @@ Key("target", edge.target)
      @@ Key("type", edge.type) @@ OptionalKey("label", edge.label)
      @@ OptionalKey("isResultant", edge.isResultant)

\* exportAsJSON: the document written to the file
exportAsJSON(diagram) ==
    [name |-> diagram.name, type |-> diagram.type,
     nodes |-> [i \in 1..Len(diagram.nodes) |-> stringifyNode(diagram.nodes[i])],
     edges |-> [i \in 1..Len(diagram.edges) |-> stringifyEdge(diagram.edges[i])],
     entryPoints |-> <<>>, exitPoints |-> <<>>,
     metadata |-> [version |-> "1.1"]]

\* reading a property of a parsed object: undefined when the key is absent
Property(object, name) == IF name \in DOMAIN object THEN {object[name]} ELSE {}

\* !value for a property holding an id (a non-empty string, modelled by its
\* rank) or an object: falsy only when undefined
Falsy(field) == field = {}

\* !value for a property holding a type name: undefined and '' are falsy
FalsyString(field) == field = {} \/ field = {""}

\* !value for a property holding a text (a sequence of characters)
FalsyText(field) == field = {} \/ field = {<<>>}

\* the object the editor reads back from a parsed node
parsedNode(json) ==
    [id |-> json.id, type |-> json.type, position |-> json.position,
     label |-> json.label, style |-> Property(json, "style")]

parsedEdge(json) ==
    [id |-> json.id, source |-> json.source, target |-> json.target,
     type |-> json.type, label |-> Property(json, "label"),
     isResultant |-> Property(json, "isResultant")]

\* importFromJSON's validation: the message of the error thrown, or "" if none
importError(importedData) ==
    IF \E i \in 1..Len(importedData.nodes) :
          LET node == importedData.nodes[i]
          IN  \/ Falsy(Property(node, "id")) \/ FalsyString(Property(node, "type"))
              \/ Falsy(Property(node, "position")) \/ FalsyText(Property(node, "label"))
    THEN "Invalid node structure in diagram"
    ELSE IF \E i \in 1..Len(importedData.nodes) :
               importedData.nodes[i].type
                 \notin {"vocabulary", "practice", "test", "operate", "exit"}
    THEN "Invalid node type"
    ELSE IF \E i \in 1..Len(importedData.edges) :
               LET edge == importedData.edges[i]
               IN  \/ Falsy(Property(edge, "id")) \/ FalsyString(Property(edge, "type"))
    THEN "Invalid edge structure in diagram"
    ELSE IF \E i \in 1..Len(importedData.edges) :
               LET edge == importedData.edges[i]
               IN  /\ edge.type # "entry" /\ edge.type # "exit"
                   /\ (Falsy(Property(edge, "source")) \/ Falsy(Property(edge, "target")))
    THEN "Invalid edge: missing source or target"
    ELSE ""

\* the diagram importFromJSON builds from a valid document
importedDiagram(importedData) ==
    [name |-> importedData.name, type |-> importedData.type,
     nodes |-> [i \in 1..Len(importedData.nodes) |-> parsedNode(importedData.nodes[i])],
     edges |-> [i \in 1..Len(importedData.edges) |-> parsedEdge(importedData.edges[i])]]

-----------------------------------------------------------------------------
(* Specification SpecJson: a diagram of the editor is exported and the file *)
(* is imported again                                                        *)

\* the most nodes of an exported diagram
MaxJsonNodes == 2

\* a node as the editor holds it: any type, a caption the user may have
\* emptied, a style once customised
EditorNodes(id) ==
    {[id |-> id, type |-> type, position |-> Pt(id * 40 * Unit, 25 * Unit),
      label |-> label, style |-> style] :
        type \in NodeTypes, label \in {<<>>, <<"a">>},
        style \in {{}, {[shape |-> "star", size |-> "large"]}}}

\* edges from the first node to the last
EditorEdgeLists(n) ==
    {<<>>,
     <<[id |-> 1, source |-> 1, target |-> n, type |-> "PV",
        label |-> {}, isResultant |-> {}]>>,
     <<[id |-> 1, source |-> 1, target |-> n, type |-> "custom",
        label |-> {<<"c">>}, isResultant |-> {TRUE}]>>}

InitJson ==
    /\ arg = Idle
    /\ out = Idle
    /\ \E n \in 1..MaxJsonNodes :
          /\ \E ns \in [1..n -> UNION {EditorNodes(i) : i \in 1..n}] :
                /\ \A i \in 1..n : ns[i].id = i
                /\ nodes = ns
          /\ edges \in EditorEdgeLists(n)

CurrentDiagram == [name |-> "d", type |-> "HYBRID", nodes |-> nodes, edges |-> edges]

ExportAsJSON ==
    /\ out = Idle
    /\ out' = [op |-> "exportAsJSON", file |-> exportAsJSON(CurrentDiagram)]
    /\ UNCHANGED <<nodes, edges, arg>>

\* the user picks the exported file: it is parsed and validated, and the
\* user is alerted or asked to confirm
ImportFromJSON ==
    /\ out.op = "exportAsJSON"
    /\ out' = IF importError(out.file) # ""
              THEN [op |-> "alert", message |-> importError(out.file)]
              ELSE [op |-> "confirm", diagram |-> importedDiagram(out.file)]
    /\ UNCHANGED <<nodes, edges, arg>>

ConfirmImport ==
    /\ out.op = "confirm"
    /\ out' = [op |-> "onImport", diagram |-> out.diagram]
    /\ UNCHANGED <<nodes, edges, arg>>

DeclineImport ==
    /\ out.op = "confirm"
    /\ out' = [op |-> "declined"]
    /\ UNCHANGED <<nodes, edges, arg>>

NextJson == ExportAsJSON \/ ImportFromJSON \/ ConfirmImport \/ DeclineImport

SpecJson == InitJson /\ [][NextJson]_vars

\* C9: the file exportAsJSON writes for a diagram of the editor is accepted by
\* importFromJSON, and the diagram handed to onImport has the exported nodes
\* and edges, field for field.
C9_JsonRoundTrip ==
    /\ out.op # "alert"
    /\ out.op = "onImport" =>
          /\ out.diagram.nodes = nodes
          /\ out.diagram.edges = edges

\* the same for diagrams of non-custom nodes that all carry a caption
C9_RoundTripWhenAccepted ==
    /\ (\A i \in 1..Len(nodes) : nodes[i].type # "custom" /\ nodes[i].label # <<>>)
          => out.op # "alert"
    /\ out.op = "onImport" =>
          /\ out.diagram.nodes = nodes
          /\ out.diagram.edges = edges


-----------------------------------------------------------------------------
(* The Redux store of the editor: the diagram slice and ui.pendingEdge.     *)
(* A state of the slice is a record of currentDiagram (Null before          *)
(* createDiagram), selectedItems, selectedNodes, selectedEdges, and the     *)
(* past, the future and the maxSize of the history.                         *)

\* history.maxSize of the initial state
maxSize == 50

initialState ==
    [currentDiagram |-> Null, selectedItems |-> <<>>, selectedNodes |-> <<>>,
     selectedEdges |-> <<>>, past |-> <<>>, future |-> <<>>, maxSize |-> maxSize]

\* JSON.parse(JSON.stringify(diagram))
jsonClone(diagram) ==
    [diagram EXCEPT
        !.nodes = [i \in 1..Len(@) |-> parsedNode(stringifyNode(@[i]))],
        !.edges = [i \in 1..Len(@) |-> parsedEdge(stringifyEdge(@[i]))]]

createDiagram(state, name, type) ==
    [state EXCEPT !.currentDiagram = [name |-> name, type |-> type, nodes |-> <<>>, edges |-> <<>>,
                                      entryPoints |-> <<>>, exitPoints |-> <<>>],
                  !.selectedItems = <<>>]

\* the payload with a fresh id, pushed on nodes
addNode(state, payload, id) ==
    IF state.currentDiagram = Null THEN state
    ELSE [state EXCEPT !.currentDiagram.nodes =
            Append(@, [id |-> id, type |-> payload.type, position |-> payload.position,
                       label |-> payload.label, style |-> {}])]

\* the payload with a fresh id, pushed on edges
addEdge(state, payload, id) ==
    IF state.currentDiagram = Null THEN state
    ELSE [state EXCEPT !.currentDiagram.edges =
            Append(@, [id |-> id, source |-> payload.source, target |-> payload.target,
                       type |-> payload.type, label |-> {}, isResultant |-> {}])]

\* array.filter(keep), keep given as the set of kept elements
RECURSIVE Filter(_, _)
Filter(seq, kept) ==
    IF seq = <<>> THEN <<>>
    ELSE IF Head(seq) \in kept THEN <<Head(seq)>> \o Filter(Tail(seq), kept)
    ELSE Filter(Tail(seq), kept)

Elements(seq) == {seq[i] : i \in 1..Len(seq)}

\* faulty variant: only the edges that leave the node are removed
deleteNodeKeepIncoming(state, nodeId) ==
    IF state.currentDiagram = Null THEN state
    ELSE [state EXCEPT
            !.currentDiagram.nodes = Filter(@, {n \in Elements(@) : n.id # nodeId}),
            !.currentDiagram.edges = Filter(@, {e \in Elements(@) : e.source # nodeId}),
            !.selectedItems = Filter(@, {id \in Elements(@) : id # nodeId})]

deleteNode(state, nodeId) ==
    IF state.currentDiagram = Null THEN state
    ELSE [state EXCEPT
            !.currentDiagram.nodes = Filter(@, {n \in Elements(@) : n.id # nodeId}),
            !.currentDiagram.edges =
                Filter(@, {e \in Elements(@) : e.source # nodeId /\ e.target # nodeId}),
            !.selectedItems = Filter(@, {id \in Elements(@) : id # nodeId})]

deleteEdge(state, edgeId) ==
    IF state.currentDiagram = Null THEN state
    ELSE [state EXCEPT
            !.currentDiagram.edges = Filter(@, {e \in Elements(@) : e.id # edgeId}),
            !.selectedItems = Filter(@, {id \in Elements(@) : id # edgeId})]

\* { ...item, ...updates } on the item with the id, if there is one
updateNode(state, id, updates) ==
    IF state.currentDiagram = Null THEN state
    ELSE [state EXCEPT !.currentDiagram.nodes =
            [i \in 1..Len(@) |-> IF @[i].id = id THEN updates @@ @[i] ELSE @[i]]]

updateEdge(state, id, updates) ==
    IF state.currentDiagram = Null THEN state
    ELSE [state EXCEPT !.currentDiagram.edges =
            [i \in 1..Len(@) |-> IF @[i].id = id THEN updates @@ @[i] ELSE @[i]]]

selectItem(state, id) == [state EXCEPT !.selectedItems = <<id>>]

addToSelection(state, id) ==
    IF id \in Elements(state.selectedItems) THEN state
    ELSE [state EXCEPT !.selectedItems = Append(@, id)]

\* past.push(snapshot), then past.shift() if it is over the limit
pushed(past, snapshot, limit) ==
    IF Len(past) + 1 > limit THEN Tail(Append(past, snapshot)) ELSE Append(past, snapshot)

saveToHistory(state) ==
    IF state.currentDiagram = Null THEN state
    ELSE [state EXCEPT !.past = pushed(@, jsonClone(state.currentDiagram), state.maxSize),
                       !.future = <<>>]

\* faulty variant: the current diagram goes to the far end of the future
undoAppending(state) ==
    IF Len(state.past) > 0 /\ state.currentDiagram # Null
    THEN [state EXCEPT !.future = Append(@, jsonClone(state.currentDiagram)),
                       !.currentDiagram = state.past[Len(state.past)],
                       !.past = SubSeq(@, 1, Len(@) - 1),
                       !.selectedItems = <<>>,
                       !.selectedNodes = <<>>,
                       !.selectedEdges = <<>>]
    ELSE state

undo(state) ==
    IF Len(state.past) > 0 /\ state.currentDiagram # Null
    THEN [state EXCEPT !.future = <<jsonClone(state.currentDiagram)>> \o @,
                       !.currentDiagram = state.past[Len(state.past)],
                       !.past = SubSeq(@, 1, Len(@) - 1),
                       !.selectedItems = <<>>,
                       !.selectedNodes = <<>>,
                       !.selectedEdges = <<>>]
    ELSE state

redo(state) ==
    IF Len(state.future) > 0 /\ state.currentDiagram # Null
    THEN [state EXCEPT !.past = Append(@, jsonClone(state.currentDiagram)),
                       !.currentDiagram = Head(state.future),
                       !.future = Tail(@),
                       !.selectedItems = <<>>,
                       !.selectedNodes = <<>>,
                       !.selectedEdges = <<>>]
    ELSE state

-----------------------------------------------------------------------------
(* Specification SpecEditor: the handlers of the editor dispatch on the     *)
(* store.  nodes and edges are those of currentDiagram; arg holds the rest  *)
(* of the store (created: currentDiagram is not null; selectedItems, past,  *)
(* future, ui.pendingEdge, and nextId for the next uuid); out remembers the *)
(* last handler and what the store held before it.  No handler of the       *)
(* editor changes selectedNodes, selectedEdges or history.maxSize, and the  *)
(* entry and exit points stay out of this specification.                    *)

\* the most uuids handed out, to nodes and edges together
MaxIds == 3

\* the most snapshots the model lets the past hold
MaxPast == 4

State ==
    [currentDiagram |-> IF arg.created THEN CurrentDiagram ELSE Null,
     selectedItems |-> arg.selectedItems, selectedNodes |-> initialState.selectedNodes,
     selectedEdges |-> initialState.selectedEdges, past |-> arg.past, future |-> arg.future,
     maxSize |-> initialState.maxSize]

InitEditor ==
    /\ nodes = <<>>
    /\ edges = <<>>
    /\ arg = [created |-> FALSE, selectedItems |-> initialState.selectedItems,
              past |-> initialState.past, future |-> initialState.future,
              pendingEdge |-> {}, nextId |-> 1]
    /\ out = [op |-> "init", id |-> 0, before |-> Null, selected |-> <<>>,
              prev |-> "", prevBefore |-> Null, origin |-> Null, depth |-> 0,
              reach |-> 0]

IsTravel(op) == op \in {"undo", "redo"}

Edits == {"addNode", "addEdge", "deleteNode", "deleteEdge", "updateNode", "updateEdge"}

\* what is remembered of handler op: for an edit or an undo the diagram
\* before it; for deleteNode the id and the selection before it; for an undo
\* or redo the handler that preceded it and the diagram before that one, the
\* diagram at the start of the run of undos and redos it belongs to, the
\* undos of the run not yet redone and the most there were of them
Remembered(op, id, step) ==
    [op |-> op,
     id |-> IF op = "deleteNode" THEN id ELSE 0,
     before |-> IF op \in Edits \cup {"undo"} THEN State.currentDiagram ELSE Null,
     selected |-> IF op = "deleteNode" THEN arg.selectedItems ELSE <<>>,
     prev |-> IF IsTravel(op) THEN out.op ELSE "",
     prevBefore |-> IF IsTravel(op) THEN out.before ELSE Null,
     origin |-> IF ~IsTravel(op) THEN Null
                ELSE IF IsTravel(out.op) THEN out.origin ELSE State.currentDiagram,
     depth |-> IF ~IsTravel(op) THEN 0
               ELSE IF IsTravel(out.op) THEN out.depth + step ELSE step,
     reach |-> IF ~IsTravel(op) THEN 0
               ELSE IF IsTravel(out.op) THEN Max(out.reach, out.depth + step) ELSE Max(0, step)]

\* the store after a handler: the slice in state s, the pending edge, the ids used
Store(s, pendingEdge, used, remembered) ==
    /\ nodes' = IF s.currentDiagram = Null THEN <<>> ELSE s.currentDiagram.nodes
    /\ edges' = IF s.currentDiagram = Null THEN <<>> ELSE s.currentDiagram.edges
    /\ arg' = [created |-> s.currentDiagram # Null, selectedItems |-> s.selectedItems,
               past |-> s.past, future |-> s.future,
               pendingEdge |-> pendingEdge, nextId |-> arg.nextId + used]
    /\ out' = remembered

NodeIds == {nodes[i].id : i \in 1..Len(nodes)}

EdgeIds == {edges[i].id : i \in 1..Len(edges)}

CanSave == Len(arg.past) < MaxPast

\* the type selector is closed: while it is open, its backdrop covers the
\* canvas and no panel is open, so that only the selector's own buttons and
\* the toolbar's respond
SelectorClosed == arg.pendingEdge = {}

\* App: createDiagram when there is no diagram yet
CreateDiagram ==
    /\ ~arg.created
    /\ Store(createDiagram(State, "d", "HYBRID"), arg.pendingEdge, 0,
             Remembered("createDiagram", 0, 0))

\* useDiagram.addNewNode
AddNewNode ==
    /\ arg.created /\ SelectorClosed /\ CanSave /\ arg.nextId <= MaxIds
    /\ Store(addNode(saveToHistory(State),
                     [type |-> "practice", position |-> Pt(arg.nextId * 40 * Unit, 25 * Unit),
                      label |-> <<"n">>],
                     arg.nextId),
             arg.pendingEdge, 1, Remembered("addNode", arg.nextId, 0))

\* Canvas.handleEdgeCreation with unmarked edges or auto-detection: the edge
\* is added at once
CreateEdgeAtOnce ==
    /\ arg.created /\ SelectorClosed /\ CanSave /\ arg.nextId <= MaxIds
    /\ \E sourceNodeId \in NodeIds, targetNodeId \in NodeIds :
          Store(addEdge(saveToHistory(State),
                        [source |-> sourceNodeId, target |-> targetNodeId, type |-> "unmarked"],
                        arg.nextId),
                arg.pendingEdge, 1, Remembered("addEdge", arg.nextId, 0))

\* Canvas.handleEdgeCreation otherwise: the edge waits for the type selector
SetPendingEdge ==
    /\ arg.created /\ SelectorClosed
    /\ \E sourceNodeId \in NodeIds, targetNodeId \in NodeIds :
          Store(State, {[source |-> sourceNodeId, target |-> targetNodeId]}, 0,
                Remembered("setPendingEdge", 0, 0))

\* EdgeTypeSelector.handleEdgeTypeSelect
HandleEdgeTypeSelect ==
    /\ arg.pendingEdge # {} /\ CanSave /\ arg.nextId <= MaxIds
    /\ \E pendingEdge \in arg.pendingEdge :
          Store(addEdge(saveToHistory(State),
                        [source |-> pendingEdge.source, target |-> pendingEdge.target,
                         type |-> "PV"],
                        arg.nextId),
                {}, 1, Remembered("addEdge", arg.nextId, 0))

\* EdgeTypeSelector.handleCancel
HandleCancel ==
    /\ arg.pendingEdge # {}
    /\ Store(State, {}, 0, Remembered("clearPendingEdge", 0, 0))

\* NodeCustomizationPanel.deleteNode
DeleteNode ==
    /\ arg.created /\ SelectorClosed /\ CanSave
    /\ \E nodeId \in NodeIds :
          Store(deleteNode(saveToHistory(State), nodeId), arg.pendingEdge, 0,
                Remembered("deleteNode", nodeId, 0))

\* EdgeModificationPanel.deleteEdge
DeleteEdge ==
    /\ arg.created /\ SelectorClosed /\ CanSave
    /\ \E edgeId \in EdgeIds :
          Store(deleteEdge(saveToHistory(State), edgeId), arg.pendingEdge, 0,
                Remembered("deleteEdge", edgeId, 0))

\* NodeCustomizationPanel.updateNodeStyle
UpdateNode ==
    /\ arg.created /\ SelectorClosed /\ CanSave
    /\ \E nodeId \in NodeIds :
          Store(updateNode(saveToHistory(State), nodeId,
                           [style |-> {[shape |-> "star", size |-> "large"]}]),
                arg.pendingEdge, 0, Remembered("updateNode", nodeId, 0))

\* EdgeModificationPanel.toggleEdgeResultant
UpdateEdge ==
    /\ arg.created /\ SelectorClosed /\ CanSave
    /\ \E edgeId \in EdgeIds :
          Store(updateEdge(saveToHistory(State), edgeId, [isResultant |-> {TRUE}]),
                arg.pendingEdge, 0, Remembered("updateEdge", edgeId, 0))

\* useDiagram.selectNode
SelectNode ==
    /\ arg.created /\ SelectorClosed
    /\ \E nodeId \in NodeIds :
          /\ arg.selectedItems # <<nodeId>>
          /\ Store(selectItem(State, nodeId), arg.pendingEdge, 0,
                   Remembered("selectItem", nodeId, 0))

\* a further node joins the selection
AddToSelection ==
    /\ arg.created /\ SelectorClosed
    /\ \E id \in NodeIds \ Elements(arg.selectedItems) :
          Store(addToSelection(State, id), arg.pendingEdge, 0,
                Remembered("addToSelection", id, 0))

\* App.handleUndo
Undo ==
    /\ arg.created /\ Len(arg.past) > 0
    /\ Store(undo(State), arg.pendingEdge, 0, Remembered("undo", 0, 1))

\* App.handleRedo
Redo ==
    /\ arg.created /\ Len(arg.future) > 0
    /\ Store(redo(State), arg.pendingEdge, 0, Remembered("redo", 0, -1))

NextEditor ==
    \/ CreateDiagram
    \/ AddNewNode
    \/ CreateEdgeAtOnce
    \/ SetPendingEdge
    \/ HandleEdgeTypeSelect
    \/ HandleCancel
    \/ DeleteNode
    \/ DeleteEdge
    \/ UpdateNode
    \/ UpdateEdge
    \/ SelectNode
    \/ AddToSelection
    \/ Undo
    \/ Redo

SpecEditor == InitEditor /\ [][NextEditor]_vars

\* C18: in every state the editor reaches, every edge of currentDiagram has
\* a source and a target that are ids of nodes of currentDiagram.
C18_EdgesJoinExistingNodes ==
    \A i \in 1..Len(edges) : edges[i].source \in NodeIds /\ edges[i].target \in NodeIds

\* C19: after an edit made as saveToHistory then a mutation, undo brings
\* currentDiagram back to the snapshot that saveToHistory took; a redo right
\* after an undo brings back the diagram that was current before the undo;
\* and when as many redos as undos have been done in a run of undos and
\* redos, currentDiagram is what it was when the run began.
C19_UndoRedoRestore ==
    /\ (out.op = "undo" /\ out.prev \in Edits) => State.currentDiagram = out.prevBefore
    /\ (out.op = "redo" /\ out.prev = "undo") => State.currentDiagram = out.prevBefore
    /\ (IsTravel(out.op) /\ out.depth = 0) => State.currentDiagram = out.origin

\* two undos, then two redos
C19_Witness ==
    /\ out.op = "redo" /\ out.prev = "redo"
    /\ out.depth = 0 /\ out.reach = 2
    /\ Len(nodes) = 2
    /\ State.currentDiagram = out.origin

\* C20: deleteNode(id) removes the node with that id and every edge that
\* leaves or enters it, keeps every other node and edge unchanged and in
\* order, and removes id from selectedItems.
C20_DeleteNodeFrame ==
    out.op = "deleteNode" =>
        /\ out.id \notin NodeIds
        /\ nodes = SelectSeq(out.before.nodes, LAMBDA n : n.id # out.id)
        /\ edges = SelectSeq(out.before.edges,
                             LAMBDA e : e.source # out.id /\ e.target # out.id)
        /\ arg.selectedItems = SelectSeq(out.selected, LAMBDA id : id # out.id)

\* a selected node with an incoming edge is deleted; another node stays selected
C20_Witness ==
    /\ out.op = "deleteNode"
    /\ Len(nodes) = 1
    /\ \E i \in 1..Len(out.before.edges) :
          out.before.edges[i].target = out.id /\ out.before.edges[i].source # out.id
    /\ edges = <<>>
    /\ Len(out.selected) = 2 /\ Len(arg.selectedItems) = 1

-----------------------------------------------------------------------------
(* Grid snapping.  A raw coordinate is a count of 1/Unit; gridSpacing is a  *)
(* whole number of layout units, as the range input of the header sets it.  *)

\* faulty variant: Math.floor(a / b)
mathFloor(a, b) == a \div b

\* Math.round(a / b) for b > 0: the nearest integer, a half going up
MathRound(a, b) == (2 * a + b) \div (2 * b)

snapToGrid(point, gridSpacing, enabled) ==
    IF ~enabled THEN point
    ELSE [x |-> MathRound(point.x, gridSpacing * Unit) * gridSpacing * Unit,
          y |-> MathRound(point.y, gridSpacing * Unit) * gridSpacing * Unit]

getSnappedPosition(point, gridSpacing, snapEnabled) == snapToGrid(point, gridSpacing, snapEnabled)

\* uiSlice.setGridSpacing
setGridSpacing(ui, payload) == [ui EXCEPT !.gridSpacing = Max(10, Min(200, payload))]

\* uiSlice.setSnapToGrid
setSnapToGrid(ui, payload) == [ui EXCEPT !.snapToGrid = payload]

updateNodePosition(state, id, position) ==
    IF state.currentDiagram = Null THEN state
    ELSE [state EXCEPT !.currentDiagram.nodes =
            [i \in 1..Len(@) |-> IF @[i].id = id THEN [@[i] EXCEPT !.position = position]
                                 ELSE @[i]]]

-----------------------------------------------------------------------------
(* Specification SpecGrid: nodes are placed by canvas clicks and moved by   *)
(* drags while the grid settings change.  arg holds ui.snapToGrid and       *)
(* ui.gridSpacing and the past of the history; out remembers the last       *)
(* handler, its raw point and the node it placed.                           *)

\* the most edits (clicks that place a node, drags) in a run
MaxMoves == 2

\* the most nodes placed
MaxPlaced == 2

\* raw pointer positions: halfway between grid lines, just off halfway, on
\* grid lines, nowhere near
RawPoints ==
    {Pt(25 * Unit, -25 * Unit), Pt(1649, 1651), Pt(-100 * Unit, 200 * Unit), Pt(12345, -6789)}

\* values of the spacing slider
SpacingValues == {10, 33, 200}

GridState ==
    [initialState EXCEPT !.currentDiagram = CurrentDiagram, !.past = arg.past]

InitGrid ==
    /\ nodes = <<>>
    /\ edges = <<>>
    /\ arg = [snapToGrid |-> FALSE, gridSpacing |-> 50, past |-> <<>>]
    /\ out = [op |-> "init", id |-> 0, raw |-> Pt(0, 0)]

\* the store after a handler of the canvas
GridStore(s, remembered) ==
    /\ nodes' = s.currentDiagram.nodes
    /\ edges' = s.currentDiagram.edges
    /\ arg' = [arg EXCEPT !.past = s.past]
    /\ out' = remembered

\* Header: the snap checkbox
SetSnapToGrid ==
    /\ \E payload \in BOOLEAN :
          /\ payload # arg.snapToGrid
          /\ arg' = setSnapToGrid(arg, payload)
    /\ out' = [op |-> "setSnapToGrid", id |-> 0, raw |-> Pt(0, 0)]
    /\ UNCHANGED <<nodes, edges>>

\* Header: the spacing slider
SetGridSpacing ==
    /\ \E payload \in SpacingValues :
          /\ payload # arg.gridSpacing
          /\ arg' = setGridSpacing(arg, payload)
    /\ out' = [op |-> "setGridSpacing", id |-> 0, raw |-> Pt(0, 0)]
    /\ UNCHANGED <<nodes, edges>>

\* Canvas.handleCanvasClick with a node tool selected
HandleCanvasClick ==
    /\ Len(arg.past) < MaxMoves /\ Len(nodes) < MaxPlaced
    /\ \E raw \in RawPoints :
          GridStore(addNode(saveToHistory(GridState),
                            [type |-> "practice",
                             position |-> getSnappedPosition(raw, arg.gridSpacing, arg.snapToGrid),
                             label |-> <<"n">>],
                            Len(nodes) + 1),
                    [op |-> "handleCanvasClick", id |-> Len(nodes) + 1, raw |-> raw])

\* Canvas: the end of a drag of a node with the select tool
DragEnd ==
    /\ Len(arg.past) < MaxMoves
    /\ \E i \in 1..Len(nodes), raw \in RawPoints :
          GridStore(updateNodePosition(saveToHistory(GridState), nodes[i].id,
                                       getSnappedPosition(raw, arg.gridSpacing, arg.snapToGrid)),
                    [op |-> "dragEnd", id |-> nodes[i].id, raw |-> raw])

NextGrid ==
    \/ SetSnapToGrid
    \/ SetGridSpacing
    \/ HandleCanvasClick
    \/ DragEnd

SpecGrid == InitGrid /\ [][NextGrid]_vars

Placed == out.op \in {"handleCanvasClick", "dragEnd"}

StoredPosition == (CHOOSE n \in Elements(nodes) : n.id = out.id).position

\* c is the multiple of spacing nearest to raw
NearestMultiple(c, raw, spacing) ==
    /\ c % spacing = 0
    /\ 2 * Abs(c - raw) <= spacing

\* C21: with snapping enabled, the position stored for a node placed by a
\* canvas click or moved by a drag has x and y that are multiples of
\* gridSpacing, each the multiple nearest to the raw coordinate; with
\* snapping disabled the raw point is stored unchanged.
C21_SnappedToNearestGridPoint ==
    Placed =>
        IF arg.snapToGrid
        THEN /\ NearestMultiple(StoredPosition.x, out.raw.x, arg.gridSpacing * Unit)
             /\ NearestMultiple(StoredPosition.y, out.raw.y, arg.gridSpacing * Unit)
        ELSE StoredPosition = out.raw

\* a drag that ends off the grid, halfway between two grid lines on x and
\* below zero on y, is stored on the grid
C21_Witness ==
    /\ out.op = "dragEnd" /\ arg.snapToGrid /\ arg.gridSpacing = 50
    /\ out.raw = Pt(25 * Unit, -25 * Unit)
    /\ StoredPosition = Pt(50 * Unit, 0)

-----------------------------------------------------------------------------
(* The history reducers of the diagram slice that no handler of the editor  *)
(* model above dispatches                                                   *)

loadDiagram(state, payload) ==
    [state EXCEPT !.currentDiagram = payload,
                  !.selectedItems = <<>>,
                  !.selectedNodes = <<>>,
                  !.selectedEdges = <<>>,
                  !.past = <<>>,
                  !.future = <<>>,
                  !.maxSize = 50]

\* maxSize = Math.max(1, payload), then past.shift() while past is over it
setHistoryMaxSize(state, payload) ==
    [state EXCEPT !.maxSize = Max(1, payload),
                  !.past = IF Len(@) > Max(1, payload)
                           THEN SubSeq(@, Len(@) - Max(1, payload) + 1, Len(@))
                           ELSE @]

-----------------------------------------------------------------------------
(* Specification SpecHistory: saveToHistory, undo, redo, setHistoryMaxSize  *)
(* and loadDiagram dispatched in any order.  nodes and edges are those of   *)
(* currentDiagram; arg holds created (currentDiagram is not null) and the   *)
(* history; out names the last reducer.                                     *)

\* payloads of setHistoryMaxSize
MaxSizes == {0, 1, 2, 3}

\* payloads of loadDiagram
LoadedDiagrams ==
    {[name |-> "d", type |-> "HYBRID", nodes |-> ns, edges |-> <<>>] :
        ns \in {<<>>, <<[id |-> 1, type |-> "practice", position |-> Pt(0, 0),
                        label |-> <<"n">>, style |-> {}]>>}}

HistoryState ==
    [initialState EXCEPT !.currentDiagram = IF arg.created THEN CurrentDiagram ELSE Null,
                         !.past = arg.past, !.future = arg.future, !.maxSize = arg.maxSize]

InitHistory ==
    /\ nodes = <<>>
    /\ edges = <<>>
    /\ arg = [created |-> FALSE, past |-> initialState.past, future |-> initialState.future,
              maxSize |-> initialState.maxSize]
    /\ out = [op |-> "init"]

\* the slice after a reducer
HistoryStore(s, op) ==
    /\ nodes' = IF s.currentDiagram = Null THEN <<>> ELSE s.currentDiagram.nodes
    /\ edges' = IF s.currentDiagram = Null THEN <<>> ELSE s.currentDiagram.edges
    /\ arg' = [created |-> s.currentDiagram # Null, past |-> s.past, future |-> s.future,
               maxSize |-> s.maxSize]
    /\ out' = [op |-> op]

LoadDiagram ==
    \E payload \in LoadedDiagrams : HistoryStore(loadDiagram(HistoryState, payload), "loadDiagram")

SaveToHistory ==
    /\ Len(arg.past) < MaxPast
    /\ HistoryStore(saveToHistory(HistoryState), "saveToHistory")

DispatchUndo == HistoryStore(undo(HistoryState), "undo")

DispatchRedo == HistoryStore(redo(HistoryState), "redo")

SetHistoryMaxSize ==
    \E payload \in MaxSizes :
        HistoryStore(setHistoryMaxSize(HistoryState, payload), "setHistoryMaxSize")

NextHistory ==
    \/ LoadDiagram
    \/ SaveToHistory
    \/ DispatchUndo
    \/ DispatchRedo
    \/ SetHistoryMaxSize

SpecHistory == InitHistory /\ [][NextHistory]_vars

\* C22: the history never holds more snapshots than configured:
\* history.past.length <= history.maxSize in every state reachable by
\* saveToHistory, undo, redo, setHistoryMaxSize and loadDiagram.
C22_PastWithinMaxSize == Len(arg.past) <= arg.maxSize

-----------------------------------------------------------------------------
(* SimpleApp keeps its own history: an array of {nodes, edges} states and   *)
(* historyIndex, a position in it counted from 0 (-1 while it is empty).    *)

\* SimpleApp maxHistorySize
maxHistorySize == 50

\* JSON.parse(JSON.stringify(nodes)), JSON.parse(JSON.stringify(edges))
deepCopy(ns, es) ==
    [nodes |-> [i \in 1..Len(ns) |-> parsedNode(stringifyNode(ns[i]))],
     edges |-> [i \in 1..Len(es) |-> parsedEdge(stringifyEdge(es[i]))]]

\* history.slice(0, historyIndex + 1) with the current state pushed on it;
\* over the limit the oldest state is shifted out, otherwise the index moves on
simpleSaveToHistory(h, ns, es) ==
    LET newHistory == Append(SubSeq(h.history, 1, h.historyIndex + 1), deepCopy(ns, es))
    IN  IF Len(newHistory) > maxHistorySize
        THEN [history |-> Tail(newHistory), historyIndex |-> h.historyIndex]
        ELSE [history |-> newHistory, historyIndex |-> h.historyIndex + 1]

\* the state that undo shows, history[historyIndex - 1]
simpleUndoState(h) == h.history[h.historyIndex]

\* the state that redo shows, history[historyIndex + 1]
simpleRedoState(h) == h.history[h.historyIndex + 2]

-----------------------------------------------------------------------------
(* Specification SpecSimple: SimpleApp edits, undoes and redoes.  nodes and *)
(* edges are its React state of those names; arg holds history,             *)
(* historyIndex and nextId for the next Date.now() id; out remembers the    *)
(* last handler, the nodes and edges before it, and the handler before it   *)
(* with the nodes and edges before that one.                                *)

\* the most states the model lets the history hold
MaxHistory == 4

\* the most ids handed out
MaxSimpleIds == 3

SimpleEdits == {"addNode", "createEdgeWithType", "updateNodeStyle"}

\* after the effect that initialises the history with the empty state
InitSimple ==
    /\ nodes = <<>>
    /\ edges = <<>>
    /\ arg = simpleSaveToHistory([history |-> <<>>, historyIndex |-> -1], <<>>, <<>>)
                @@ [nextId |-> 1]
    /\ out = [op |-> "init", before |-> deepCopy(<<>>, <<>>), prev |-> "",
              prevBefore |-> deepCopy(<<>>, <<>>), prevPrev |-> ""]

SimpleRemembered(op) ==
    [op |-> op, before |-> [nodes |-> nodes, edges |-> edges], prev |-> out.op,
     prevBefore |-> out.before, prevPrev |-> out.prev]

CanEdit == Len(arg.history) < MaxHistory

\* SimpleApp.addNode with a node tool
SimpleAddNode ==
    /\ CanEdit /\ arg.nextId <= MaxSimpleIds
    /\ arg' = simpleSaveToHistory(arg, nodes, edges) @@ [nextId |-> arg.nextId + 1]
    /\ nodes' = Append(nodes, [id |-> arg.nextId, type |-> "practice",
                               position |-> Pt(arg.nextId * 40 * Unit, 25 * Unit),
                               label |-> <<"n">>, style |-> {}])
    /\ out' = SimpleRemembered("addNode")
    /\ UNCHANGED edges

\* SimpleApp.createEdgeWithType
SimpleCreateEdgeWithType ==
    /\ CanEdit /\ arg.nextId <= MaxSimpleIds
    /\ \E source \in NodeIds, target \in NodeIds :
          edges' = Append(edges, [id |-> arg.nextId, source |-> source, target |-> target,
                                  type |-> "PV", label |-> {}, isResultant |-> {}])
    /\ arg' = simpleSaveToHistory(arg, nodes, edges) @@ [nextId |-> arg.nextId + 1]
    /\ out' = SimpleRemembered("createEdgeWithType")
    /\ UNCHANGED nodes

\* SimpleApp.updateNodeStyle
SimpleUpdateNodeStyle ==
    /\ CanEdit
    /\ \E nodeId \in NodeIds, size \in {"small", "large"} :
          /\ \A i \in 1..Len(nodes) :
                nodes[i].id = nodeId => nodes[i].style # {[size |-> size]}
          /\ nodes' = [i \in 1..Len(nodes) |->
                          IF nodes[i].id = nodeId
                          THEN [nodes[i] EXCEPT !.style = {[size |-> size]}]
                          ELSE nodes[i]]
    /\ arg' = simpleSaveToHistory(arg, nodes, edges) @@ [nextId |-> arg.nextId]
    /\ out' = SimpleRemembered("updateNodeStyle")
    /\ UNCHANGED edges

\* SimpleApp.undo
SimpleUndo ==
    /\ arg.historyIndex > 0
    /\ nodes' = simpleUndoState(arg).nodes
    /\ edges' = simpleUndoState(arg).edges
    /\ arg' = [arg EXCEPT !.historyIndex = @ - 1]
    /\ out' = SimpleRemembered("undo")

\* SimpleApp.redo
SimpleRedo ==
    /\ arg.historyIndex < Len(arg.history) - 1
    /\ nodes' = simpleRedoState(arg).nodes
    /\ edges' = simpleRedoState(arg).edges
    /\ arg' = [arg EXCEPT !.historyIndex = @ + 1]
    /\ out' = SimpleRemembered("redo")

NextSimple ==
    \/ SimpleAddNode
    \/ SimpleCreateEdgeWithType
    \/ SimpleUpdateNodeStyle
    \/ SimpleUndo
    \/ SimpleRedo

SpecSimple == InitSimple /\ [][NextSimple]_vars

\* C23: in SimpleApp's history a single undo after an edit restores nodes
\* and edges as they were immediately before that edit, and a redo directly
\* after that undo restores them as they were after the edit.
C23_UndoRestoresBeforeEdit ==
    /\ (out.op = "undo" /\ out.prev \in SimpleEdits) =>
          [nodes |-> nodes, edges |-> edges] = out.prevBefore
    /\ (out.op = "redo" /\ out.prev = "undo" /\ out.prevPrev \in SimpleEdits) =>
          [nodes |-> nodes, edges |-> edges] = out.prevBefore

-----------------------------------------------------------------------------
(* Entry and exit points and the selection lists of the diagram slice.  An  *)
(* entry point has a targetNodeId, '' (0 in the model) until it is          *)
(* connected; an exit point has a sourceNodeId.                             *)

addEntryPoint(state, payload, id) ==
    IF state.currentDiagram = Null THEN state
    ELSE [state EXCEPT !.currentDiagram.entryPoints =
            Append(@, [id |-> id, position |-> payload.position,
                       targetNodeId |-> payload.targetNodeId])]

addExitPoint(state, payload, id) ==
    IF state.currentDiagram = Null THEN state
    ELSE [state EXCEPT !.currentDiagram.exitPoints =
            Append(@, [id |-> id, position |-> payload.position,
                       sourceNodeId |-> payload.sourceNodeId])]

\* { ...entryPoint, ...payload } on the entry point with the id of the payload
updateEntryPoint(state, payload) ==
    IF state.currentDiagram = Null THEN state
    ELSE [state EXCEPT !.currentDiagram.entryPoints =
            [i \in 1..Len(@) |-> IF @[i].id = payload.id THEN payload @@ @[i] ELSE @[i]]]

selectAll(state) ==
    IF state.currentDiagram = Null THEN state
    ELSE LET nodeIds == [i \in 1..Len(state.currentDiagram.nodes) |->
                            state.currentDiagram.nodes[i].id]
             edgeIds == [i \in 1..Len(state.currentDiagram.edges) |->
                            state.currentDiagram.edges[i].id]
         IN  [state EXCEPT !.selectedNodes = nodeIds,
                           !.selectedEdges = edgeIds,
                           !.selectedItems = nodeIds \o edgeIds]

-----------------------------------------------------------------------------
(* Specification SpecPoints: a diagram gets nodes, edges, entry and exit    *)
(* points, items are selected, and nodes are deleted.  nodes and edges are  *)
(* those of currentDiagram; arg holds its entryPoints and exitPoints, the   *)
(* three selection lists and nextId for the next uuid; out remembers the    *)
(* last reducer and, for deleteNode, the id and the edges before it.        *)

\* the most uuids handed out, to nodes, edges, entry and exit points together
MaxPointIds == 4

PointsState ==
    [initialState EXCEPT
        !.currentDiagram = [name |-> "d", type |-> "HYBRID", nodes |-> nodes, edges |-> edges,
                            entryPoints |-> arg.entryPoints, exitPoints |-> arg.exitPoints],
        !.selectedItems = arg.selectedItems,
        !.selectedNodes = arg.selectedNodes,
        !.selectedEdges = arg.selectedEdges]

\* after createDiagram
InitPoints ==
    /\ nodes = createDiagram(initialState, "d", "HYBRID").currentDiagram.nodes
    /\ edges = createDiagram(initialState, "d", "HYBRID").currentDiagram.edges
    /\ arg = [entryPoints |-> createDiagram(initialState, "d", "HYBRID").currentDiagram.entryPoints,
              exitPoints |-> createDiagram(initialState, "d", "HYBRID").currentDiagram.exitPoints,
              selectedItems |-> initialState.selectedItems,
              selectedNodes |-> initialState.selectedNodes,
              selectedEdges |-> initialState.selectedEdges,
              nextId |-> 1]
    /\ out = [op |-> "createDiagram", id |-> 0, edges |-> <<>>]

\* the slice after a reducer
PointsStore(s, used, op, id) ==
    /\ nodes' = s.currentDiagram.nodes
    /\ edges' = s.currentDiagram.edges
    /\ arg' = [entryPoints |-> s.currentDiagram.entryPoints,
               exitPoints |-> s.currentDiagram.exitPoints,
               selectedItems |-> s.selectedItems,
               selectedNodes |-> s.selectedNodes,
               selectedEdges |-> s.selectedEdges,
               nextId |-> arg.nextId + used]
    /\ out' = [op |-> op, id |-> id, edges |-> IF op = "deleteNode" THEN edges ELSE <<>>]

HasId == arg.nextId <= MaxPointIds

DispatchAddNode ==
    /\ HasId /\ Len(nodes) < 2
    /\ PointsStore(addNode(PointsState,
                           [type |-> "practice", position |-> Pt(arg.nextId * 40 * Unit, 0),
                            label |-> <<"n">>],
                           arg.nextId),
                   1, "addNode", arg.nextId)

DispatchAddEdge ==
    /\ HasId /\ Len(edges) < 1
    /\ \E source \in NodeIds, target \in NodeIds :
          PointsStore(addEdge(PointsState,
                              [source |-> source, target |-> target, type |-> "PV"],
                              arg.nextId),
                      1, "addEdge", arg.nextId)

\* Canvas.handleCanvasClick with the entry tool: an unconnected entry point
DispatchAddEntryPoint ==
    /\ HasId /\ Len(arg.entryPoints) < 1
    /\ PointsStore(addEntryPoint(PointsState,
                                 [position |-> Pt(0, 50 * Unit), targetNodeId |-> 0],
                                 arg.nextId),
                   1, "addEntryPoint", arg.nextId)

\* Canvas: a click on a node with the entry tool connects the unconnected entry point
DispatchUpdateEntryPoint ==
    \E i \in 1..Len(arg.entryPoints), targetNodeId \in NodeIds :
        /\ arg.entryPoints[i].targetNodeId = 0
        /\ PointsStore(updateEntryPoint(PointsState,
                                        [id |-> arg.entryPoints[i].id,
                                         targetNodeId |-> targetNodeId]),
                       0, "updateEntryPoint", arg.entryPoints[i].id)

\* Canvas.handleCanvasClick with the exit tool, after a click on a node
DispatchAddExitPoint ==
    /\ HasId /\ Len(arg.exitPoints) < 1
    /\ \E sourceNodeId \in NodeIds :
          PointsStore(addExitPoint(PointsState,
                                   [position |-> Pt(0, -50 * Unit),
                                    sourceNodeId |-> sourceNodeId],
                                   arg.nextId),
                      1, "addExitPoint", arg.nextId)

DispatchSelectItem ==
    \E id \in NodeIds \cup EdgeIds :
        /\ arg.selectedItems # <<id>>
        /\ PointsStore(selectItem(PointsState, id), 0, "selectItem", id)

DispatchSelectAll ==
    /\ selectAll(PointsState) # PointsState
    /\ PointsStore(selectAll(PointsState), 0, "selectAll", 0)

DispatchDeleteNode ==
    \E nodeId \in NodeIds :
        PointsStore(deleteNode(PointsState, nodeId), 0, "deleteNode", nodeId)

NextPoints ==
    \/ DispatchAddNode
    \/ DispatchAddEdge
    \/ DispatchAddEntryPoint
    \/ DispatchUpdateEntryPoint
    \/ DispatchAddExitPoint
    \/ DispatchSelectItem
    \/ DispatchSelectAll
    \/ DispatchDeleteNode

SpecPoints == InitPoints /\ [][NextPoints]_vars

\* the deleted node and the edges deleted with it
Removed ==
    {out.id} \cup {out.edges[i].id : i \in {j \in 1..Len(out.edges) :
                                              out.edges[j].source = out.id
                                                 \/ out.edges[j].target = out.id}}

\* C24: after deleteNode(id) no entry point has targetNodeId = id, no exit
\* point has sourceNodeId = id, and selectedItems, selectedNodes and
\* selectedEdges hold neither id nor the id of an edge removed with the node.
C24_NothingRefersToDeleted ==
    out.op = "deleteNode" =>
        /\ \A i \in 1..Len(arg.entryPoints) : arg.entryPoints[i].targetNodeId # out.id
        /\ \A i \in 1..Len(arg.exitPoints) : arg.exitPoints[i].sourceNodeId # out.id
        /\ Elements(arg.selectedItems) \cap Removed = {}
        /\ Elements(arg.selectedNodes) \cap Removed = {}
        /\ Elements(arg.selectedEdges) \cap Removed = {}

\* after deleteNode(id) the id is not in selectedItems and no edge refers to it
C24_DeletedNotSelectedNorJoined ==
    out.op = "deleteNode" =>
        /\ out.id \notin Elements(arg.selectedItems)
        /\ \A i \in 1..Len(edges) : edges[i].source # out.id /\ edges[i].target # out.id

-----------------------------------------------------------------------------
(* Claims about the TikZ picture, checked under SpecGeom *)

\* a length of the screen in TikZ units, by the scale 15 / maxDimension that
\* generateTikZCode applies to positions, in hundredths as toFixed(2) writes it
ScaledLikePositions(length) ==
    LET bounds == calculateDiagramBounds(nodes)
    IN  Div(length * 15 * 100, Max(bounds.width, bounds.height))

\* C25: the size written for a node in the TikZ output (minimum width,
\* minimum height, minimum size) is the node's getNodeDimensions size
\* multiplied by the scale factor that is applied to positions.
C25_TikZSizeScaledLikePositions ==
    out.op = "exportAsLaTeX" =>
        \A i \in 1..Len(out.nodes) :
            /\ Abs(out.nodes[i].widthCm
                     - ScaledLikePositions(getNodeDimensions(nodes[i]).width)) <= 1
            /\ Abs(out.nodes[i].heightCm
                     - ScaledLikePositions(getNodeDimensions(nodes[i]).height)) <= 1


\* the draw element of the edge that a label element belongs to
DrawOf(label) == CHOOSE e \in Elements(out.edges) : e.kind = "draw" /\ e.edge = label.edge

\* the direction of a drawn edge in TikZ coordinates, from its first to its
\* last point (for a curve this is the tangent at its middle), in (-90, 90]
TikZDirection(draw) ==
    normalizeAngle(Atan2Degrees(draw.pts[Len(draw.pts)].y - draw.pts[1].y,
                                draw.pts[Len(draw.pts)].x - draw.pts[1].x))

\* the angle between two directions of lines, in degrees
AngleGap(a, b) == Min(Abs(a - b), 180 - Abs(a - b))

\* a label with a rotate option on an edge that is no loop and has two ends apart
RotatedLabels ==
    {e \in Elements(out.edges) :
        /\ e.kind = "label" /\ e.rotate # {}
        /\ Len(DrawOf(e).pts) < 4
        /\ DrawOf(e).pts[1] # DrawOf(e).pts[Len(DrawOf(e).pts)]}

\* C26: the rotate option written for an edge label in the TikZ output is
\* the direction angle of that edge in TikZ coordinates (the screen-space
\* labelAngle with its sign reversed by the vertical flip, in (-90, 90]), so
\* that the label is parallel to its edge in the picture.
C26_TikZLabelParallelToEdge ==
    out.op = "exportAsLaTeX" =>
        \A e \in RotatedLabels : \A a \in e.rotate : AngleGap(a, TikZDirection(DrawOf(e))) <= 2

\* the rotate option is the direction angle of the edge with the sign it has
\* on the screen
C26_TikZLabelMirrored ==
    out.op = "exportAsLaTeX" =>
        \A e \in RotatedLabels :
            \A a \in e.rotate : AngleGap(normalizeAngle(-a), TikZDirection(DrawOf(e))) <= 2

-----------------------------------------------------------------------------
(* Edge colors *)

\* the EdgeType union
EdgeTypes ==
    {"PV", "VP", "PP", "VV",
     "PV-suff", "PV-nec", "VP-suff", "VP-nec", "PP-suff", "PP-nec", "VV-suff", "VV-nec",
     "sequence", "feedback", "loop", "exit", "entry", "resultant", "unmarked", "custom"}

\* edgeType.replace('-suff', '').replace('-nec', ''), on the types of the union
getBaseEdgeType(edgeType) ==
    CASE edgeType \in {"PV-suff", "PV-nec"} -> "PV"
      [] edgeType \in {"VP-suff", "VP-nec"} -> "VP"
      [] edgeType \in {"PP-suff", "PP-nec"} -> "PP"
      [] edgeType \in {"VV-suff", "VV-nec"} -> "VV"
      [] OTHER -> edgeType

\* edgeType.includes('-suff'), edgeType.includes('-nec'), on the types of the
\* union; "null" is null
getEdgeQualifier(edgeType) ==
    IF edgeType \in {"PV-suff", "VP-suff", "PP-suff", "VV-suff"} THEN "suff"
    ELSE IF edgeType \in {"PV-nec", "VP-nec", "PP-nec", "VV-nec"} THEN "nec"
    ELSE "null"

\* the chain of replace calls for a necessary relation
darker(baseColor) ==
    CASE baseColor = "#4CAF50" -> "#2E7D32"
      [] baseColor = "#FF9800" -> "#E65100"
      [] baseColor = "#9C27B0" -> "#6A1B9A"
      [] baseColor = "#F44336" -> "#C62828"
      [] OTHER -> baseColor

\* the chain of replace calls for a resultant edge
lighter(baseColor) ==
    CASE baseColor = "#4CAF50" -> "#81C784"
      [] baseColor = "#FF9800" -> "#FFB74D"
      [] baseColor = "#9C27B0" -> "#BA68C8"
      [] baseColor = "#F44336" -> "#E57373"
      [] baseColor = "#2196F3" -> "#64B5F6"
      [] baseColor = "#FF5722" -> "#FF8A65"
      [] baseColor = "#607D8B" -> "#90A4AE"
      [] baseColor = "#8BC34A" -> "#AED581"
      [] baseColor = "#666666" -> "#999999"
      [] OTHER -> baseColor

getEdgeColor(type, isResultant) ==
    LET baseType == getBaseEdgeType(type)
        qualifier == getEdgeQualifier(type)
        baseColor == CASE baseType = "PV" -> "#4CAF50"
                       [] baseType = "VP" -> "#FF9800"
                       [] baseType = "PP" -> "#9C27B0"
                       [] baseType = "VV" -> "#F44336"
                       [] baseType = "sequence" -> "#2196F3"
                       [] baseType = "feedback" -> "#FF5722"
                       [] baseType = "loop" -> "#607D8B"
                       [] baseType = "exit" -> "#8BC34A"
                       [] baseType = "entry" -> "#4CAF50"
                       [] baseType = "unmarked" -> "#666666"
                       [] baseType = "custom" -> "#333333"
                       [] OTHER -> "#666"
    IN  IF qualifier = "suff" THEN baseColor
        ELSE IF qualifier = "nec" THEN darker(baseColor)
        ELSE IF isResultant THEN lighter(baseColor)
        ELSE baseColor

getEdgeColorSVG(edgeType) ==
    CASE edgeType = "PV" -> "#4CAF50"
      [] edgeType = "VP" -> "#FF9800"
      [] edgeType = "PP" -> "#9C27B0"
      [] edgeType = "VV" -> "#F44336"
      [] edgeType = "sequence" -> "#2196F3"
      [] edgeType = "feedback" -> "#FF5722"
      [] edgeType = "loop" -> "#607D8B"
      [] edgeType = "exit" -> "#8BC34A"
      [] edgeType = "entry" -> "#4CAF50"
      [] OTHER -> "#666"

\* the canvas's stroke attribute of an edge path
canvasStroke(edge, selectedItems) ==
    IF edge.id \in selectedItems THEN "#2196F3"
    ELSE getEdgeColor(edge.type, edge.isResultant)

-----------------------------------------------------------------------------
(* Specification SpecColor: one edge of any type, resultant or not,         *)
(* selected or not, stroked by the canvas and by exportAsSVG                *)

InitColor ==
    /\ nodes = <<MkNode(1, "practice", Undefined, Undefined, Pt(0, 0)),
                 MkNode(2, "vocabulary", Undefined, Undefined, Pt(200 * Unit, 0))>>
    /\ \E type \in EdgeTypes, isResultant \in BOOLEAN :
          edges = <<MkEdge(1, 1, 2, type, Undefined, isResultant)>>
    /\ \E selectedItems \in {{}, {1}} : arg = [selectedItems |-> selectedItems]
    /\ out = Idle

CanvasStroke ==
    /\ out = Idle
    /\ out' = [op |-> "canvas", stroke |-> canvasStroke(edges[1], arg.selectedItems)]
    /\ UNCHANGED <<nodes, edges, arg>>

SvgStroke ==
    /\ out = Idle
    /\ out' = [op |-> "exportAsSVG", stroke |-> getEdgeColorSVG(edges[1].type)]
    /\ UNCHANGED <<nodes, edges, arg>>

NextColor ==
    \/ CanvasStroke
    \/ SvgStroke

SpecColor == InitColor /\ [][NextColor]_vars

\* the color that a hex notation stands for: #rgb is #rrggbb
Rgb(color) == IF color = "#666" THEN "#666666" ELSE color

\* C27: for every edge type and both values of isResultant, the stroke
\* color written by exportAsSVG is the color that the canvas uses for the
\* edge when it is not selected, getEdgeColor(type, isResultant).
C27_SvgStrokeIsCanvasColor ==
    out.op = "exportAsSVG" =>
        Rgb(out.stroke) = Rgb(getEdgeColor(edges[1].type, edges[1].isResultant))

\* for the unqualified types but custom, on an edge that is not resultant,
\* the two colors agree
C27_AgreeOnPlainTypes ==
    (/\ out.op = "exportAsSVG"
     /\ ~edges[1].isResultant
     /\ getEdgeQualifier(edges[1].type) = "null"
     /\ edges[1].type # "custom")
        => Rgb(out.stroke) = Rgb(getEdgeColor(edges[1].type, edges[1].isResultant))

-----------------------------------------------------------------------------
(* Claims about self-loops, checked under SpecGeom *)

\* edges i and j are two self-loops on one node of the snapshot
LoopsOnOneNode(i, j) ==
    /\ i # j
    /\ edges[i].source = edges[i].target
    /\ edges[j].source = edges[j].target
    /\ edges[i].source = edges[j].source
    /\ hasNode(nodes, edges[i].source)

\* C28: two distinct self-loop edges on the same node never receive
\* identical path geometry: their start points, end points or control points
\* differ, in the exporters' copy and on the canvas.
C28_LoopsDoNotCoincide ==
    out.op = "computeEdgeGeometry" =>
        \A i \in 1..Len(edges), j \in 1..Len(edges) :
            LoopsOnOneNode(i, j) =>
                /\ <<out.export[i].start, out.export[i].end,
                     out.export[i].control, out.export[i].control2>>
                     # <<out.export[j].start, out.export[j].end,
                         out.export[j].control, out.export[j].control2>>
                /\ out.canvas[i].path # out.canvas[j].path

-----------------------------------------------------------------------------
(* Claims about the order of the arrays, checked under SpecGeom, whose      *)
(* snapshots have unique node ids and unique edge ids                       *)

\* C29: the offset and the geometry computed for an edge depend only on the
\* set of nodes and edges: they are the same for every permutation of the
\* nodes array and of the allEdges array.
C29_OrderOfArraysIrrelevant ==
    out.op = "computeOnPermutedArrays" =>
        \A i \in 1..Len(edges) :
            /\ out.exportOffset[i] = getEdgeOffsetForExport(edges[i], edges)
            /\ out.canvasOffset[i] = getEdgeOffset(edges[i], edges)
            /\ out.export[i] = computeEdgeGeometryForExport(edges[i], nodes, edges)
            /\ out.canvas[i] = getEdgeGeometry(edges[i], nodes, edges)

\* both arrays reversed, with two edges between the two nodes that are
\* routed as curves
C29_Witness ==
    /\ out.op = "computeOnPermutedArrays"
    /\ out.nodes = <<2, 1>> /\ out.edges = <<2, 1>>
    /\ out.exportOffset[1] # 0 /\ out.canvasOffset[2] # 0
    /\ out.export[1] # Null /\ out.export[1].type = "curve"

-----------------------------------------------------------------------------
(* Claims about the viewBox of the SVG document, checked under SpecShape *)

\* point p, in hundredths, is inside the viewBox rectangle
InViewBox(p, viewBox) ==
    /\ viewBox.minX * 100 <= p.x * Unit /\ p.x * Unit <= (viewBox.minX + viewBox.width) * 100
    /\ viewBox.minY * 100 <= p.y * Unit /\ p.y * Unit <= (viewBox.minY + viewBox.height) * 100

\* the two ends of a drawn path and the point of the curve at its middle
PointsOfPath(d) ==
    CASE d.cmd = "C" ->
            {d.pts[1], d.pts[4],
             Pt(Div(d.pts[1].x + 3 * d.pts[2].x + 3 * d.pts[3].x + d.pts[4].x, 8),
                Div(d.pts[1].y + 3 * d.pts[2].y + 3 * d.pts[3].y + d.pts[4].y, 8))}
      [] d.cmd = "Q" ->
            {d.pts[1], d.pts[3],
             Pt(Div(d.pts[1].x + 2 * d.pts[2].x + d.pts[3].x, 4),
                Div(d.pts[1].y + 2 * d.pts[2].y + d.pts[3].y, 4))}
      [] OTHER -> Elements(d.pts)

\* C30: in the document written by exportAsSVG every edge's start point,
\* end point, label anchor and drawn curve (self-loops on the outermost
\* node included, for all three size classes) lie inside the viewBox, the
\* bounding box of the node centers padded by 100 on each side.
C30_EdgesInsideViewBox ==
    out.op = "exportAsSVG" =>
        \A e \in Elements(out.edges) :
            IF e.kind = "path"
            THEN \A p \in PointsOfPath(e.d) : InViewBox(p, out.viewBox)
            ELSE InViewBox(e.at, out.viewBox)

\* the start and end points of a self-loop are inside the viewBox
C30_LoopEndsInsideViewBox ==
    out.op = "exportAsSVG" =>
        \A e \in Elements(out.edges) :
            e.kind = "path" => InViewBox(e.d.pts[1], out.viewBox)
                                  /\ InViewBox(e.d.pts[Len(e.d.pts)], out.viewBox)

=============================================================================
